---- MODULE Spec2Model ----
(***************************************************************************)
(* ExpGen: the incremental RPN sequence builder (expbuilder/rpnBuilder.py), *)
(* its two legality replays, its action mask, and the token model          *)
(* (expbuilder/tokens.py).                                                  *)
(*                                                                         *)
(* Python values that may be None are modelled as sets of at most one       *)
(* element: {} is None and {n} is the number n.                             *)
(***************************************************************************)
EXTENDS Integers, Sequences, FiniteSets, TLC

VARIABLES
    tokenList,   \* RPNBuilder.tokenList
    expression,  \* RPNBase.expression, the rendered-text list
    refq,        \* the queue of the ref instance whose calc is in default_ops
    call,        \* the last method called: its arguments, the exception raised, the value returned
    maskArgs,    \* the arguments handed to GetActionSpace and MaskActionSpace
    maskRet,     \* what the two functions returned, None before the call
    streams,     \* two evaluation loops under way, the ref instances they call, the calls made
    rpn,         \* an RPNBase built on a given expression, and what its last call returned
    karva,       \* a KEBase built on a given expression, and what its last call returned
    ops_available, \* Operator.ops_available, and how the last Operator(...) call ended
    arityDict,   \* the argument of a GetArityDict call and what it returned
    env          \* the last RegressionEnv call on the builder, and what it returned

builderVars == <<tokenList, expression, refq, call>>

\* The variables the builder's methods do not touch.
otherVars == <<maskArgs, maskRet, streams, rpn, karva, ops_available, arityDict, env>>

\* All variables but the one an action outside the builder writes.
exceptMaskRet == <<builderVars, maskArgs, streams, rpn, karva, ops_available, arityDict, env>>
exceptStreams == <<builderVars, maskArgs, maskRet, rpn, karva, ops_available, arityDict, env>>
exceptRpn == <<builderVars, maskArgs, maskRet, streams, karva, ops_available, arityDict, env>>
exceptKarva == <<builderVars, maskArgs, maskRet, streams, rpn, ops_available, arityDict, env>>
exceptOpsAvailable == <<builderVars, maskArgs, maskRet, streams, rpn, karva, arityDict, env>>
exceptArityDict == <<builderVars, maskArgs, maskRet, streams, rpn, karva, ops_available, env>>

\* What RegressionEnv leaves alone: it drives its builder and nothing else.
exceptEnv == <<call, maskArgs, maskRet, streams, rpn, karva, ops_available, arityDict>>

vars == <<tokenList, expression, refq, call, maskArgs, maskRet, streams, rpn, karva,
          ops_available, arityDict, env>>

\* max_length of the builder under analysis (RPNBuilder.__init__ parameter).
MaxLen == 6

None == {}
Some(n) == {n}
ValOf(s) == CHOOSE n \in s : TRUE

(***************************************************************************)
(* Tokens (expbuilder/tokens.py).  Every token is a record                  *)
(* [kind, name, val]: kind is the Python class, name the feature key, the   *)
(* operator name or the indicator name, val the literal of a Constant or a  *)
(* DeltaTime.                                                               *)
(***************************************************************************)
ConstantToken(c) == [kind |-> "Constant", name |-> "", val |-> c]
DeltaTimeToken(d) == [kind |-> "DeltaTime", name |-> "", val |-> d]
FeatureToken(f) == [kind |-> "Feature", name |-> f, val |-> 0]
OperatorToken(o) == [kind |-> "Operator", name |-> o, val |-> 0]
SequenceIndicatorToken(i) == [kind |-> "SequenceIndicator", name |-> i, val |-> 0]

BEG_TOKEN == SequenceIndicatorToken("BEG")
SEP_TOKEN == SequenceIndicatorToken("SEP")

\* str.lower() on the feature keys the model uses.
Lower(s) == CASE s = "Close" -> "close"
              [] s = "CLOSE" -> "close"
              [] OTHER -> s

\* Token.__str__ of each token class.
Str(tok) == CASE tok.kind = "Constant" -> ToString(tok.val)
              [] tok.kind = "DeltaTime" -> ToString(tok.val)
              [] tok.kind = "Feature" -> "$" \o Lower(tok.name)
              [] tok.kind = "Operator" -> tok.name
              [] OTHER -> tok.name

(***************************************************************************)
(* The operators handed to the builder: the Operator objects carried by     *)
(* the OperatorTokens (name, Optype, argTypeList) and the default_ops       *)
(* dictionary name -> (callable, arity).  add and ref are the operators of  *)
(* the repository's example; tsdiff is a TS operator of three arguments.    *)
(***************************************************************************)
CSOperators == <<"add">>
TSOperators == <<"ref", "tsdiff">>

Range(s) == {s[i] : i \in DOMAIN s}

OpNames == Range(CSOperators) \cup Range(TSOperators)

\* Operator.Optype
Optype(o) == IF o \in Range(CSOperators) THEN "CS" ELSE "TS"

\* Operator.n_args(): len(argTypeList)
n_args(o) == CASE o = "add" -> 2
               [] o = "ref" -> 2
               [] o = "tsdiff" -> 3

\* self.ops[name][1]: the arity recorded in default_ops
OpsArity(o) == CASE o = "add" -> 2
                 [] o = "ref" -> 2
                 [] o = "tsdiff" -> 3

(***************************************************************************)
(* The callables of default_ops.  Apply returns the exception raised (or    *)
(* "none"), the value returned and the queue of the ref instance after the  *)
(* call.  args are in call order.                                           *)
(***************************************************************************)
\* ref.__init__(n): a queue holding n None values; the example builds ref(1).
RefInit == <<None>>

\* queue.Queue(n + 1): the number of values the queue of ref(n) holds at most
RefCapacity(n) == n + 1

\* RefPut that stores nothing of the value it is given.
RefPutNone(v, q) == q \o <<None>>

\* self.q.put(v), which blocks while the queue is full
RefPut(v, q) == q \o <<v>>

\* self.q.get(), which blocks while the queue is empty
RefGet(q) == [val |-> Head(q), q |-> Tail(q)]

\* ref.calc(v, n): q.put(v); return q.get()
RefCalc(v, n, q) == [exc |-> "none", val |-> Head(q \o <<v>>), q |-> Tail(q \o <<v>>)]

\* add(a, b): a + b; None + x raises TypeError
Add(a, b, q) == IF a = None \/ b = None
                THEN [exc |-> "TypeError", val |-> None, q |-> q]
                ELSE [exc |-> "none", val |-> Some(ValOf(a) + ValOf(b)), q |-> q]

\* tsdiff(x, y, n): x - y
TsDiff(x, y, n, q) == IF x = None \/ y = None
                      THEN [exc |-> "TypeError", val |-> None, q |-> q]
                      ELSE [exc |-> "none", val |-> Some(ValOf(x) - ValOf(y)), q |-> q]

\* lambda x, y: x - y, the '-' of the default_ops of the examples
Sub(a, b, q) == IF a = None \/ b = None
                THEN [exc |-> "TypeError", val |-> None, q |-> q]
                ELSE [exc |-> "none", val |-> Some(ValOf(a) - ValOf(b)), q |-> q]

\* lambda a, b: a * b, the '*' of the DEFAULT_OPS of karva.py
Mul(a, b, q) == IF a = None \/ b = None
                THEN [exc |-> "TypeError", val |-> None, q |-> q]
                ELSE [exc |-> "none", val |-> Some(ValOf(a) * ValOf(b)), q |-> q]

\* negate(a): -a
Negate(a, q) == IF a = None
                THEN [exc |-> "TypeError", val |-> None, q |-> q]
                ELSE [exc |-> "none", val |-> Some(0 - ValOf(a)), q |-> q]

\* func(*args_to_pass) for func = self.ops[name][0]
Apply(o, args, q) == CASE o = "add" -> Add(args[1], args[2], q)
                       [] o = "+" -> Add(args[1], args[2], q)
                       [] o = "-" -> Sub(args[1], args[2], q)
                       [] o = "*" -> Mul(args[1], args[2], q)
                       [] o = "neg" -> Negate(args[1], q)
                       [] o = "ref" -> RefCalc(args[1], args[2], q)
                       [] o = "tsdiff" -> TsDiff(args[1], args[2], args[3], q)

(***************************************************************************)
(* Legality records: the dictionaries returned by valid_next_token_*.       *)
(***************************************************************************)
Record(c, d, f, cs, ts, sep) ==
    [Constant |-> c, DeltaTime |-> d, Feature |-> f,
     CSOperator |-> [Max |-> cs, Min |-> None],
     TSOperator |-> [Max |-> ts, Min |-> None],
     SEP |-> sep]

NoRecord == Record(FALSE, FALSE, FALSE, None, None, FALSE)

\* The last `n` elements of the stack and what is left below them:
\* [stack.pop() for _ in range(n)][::-1]
TopN(stack, n) == SubSeq(stack, Len(stack) - n + 1, Len(stack))
PopN(stack, n) == SubSeq(stack, 1, Len(stack) - n)

(***************************************************************************)
(* valid_next_token_formal: the replay loop, then the decision.             *)
(* last is the class of last_token, "" while it is None.                     *)
(***************************************************************************)
RECURSIVE ReplayFormal(_, _, _, _)
ReplayFormal(tl, i, stack, last) ==
    IF i > Len(tl) THEN [exc |-> "none", stack |-> stack, last |-> last]
    ELSE LET token == tl[i] IN
         CASE token.kind = "SequenceIndicator" -> ReplayFormal(tl, i + 1, stack, last)
           [] token.kind \in {"Constant", "DeltaTime", "Feature"} ->
                ReplayFormal(tl, i + 1, Append(stack, 0), token.kind)
           [] token.kind = "Operator" ->
                LET arity == OpsArity(token.name) IN
                IF Len(stack) < arity
                THEN [exc |-> "IndexError", stack |-> stack, last |-> last]
                ELSE ReplayFormal(tl, i + 1, Append(PopN(stack, arity), 0), token.kind)

\* The TS bound of the DeltaTime row of valid_next_token_formal.
FormalDeltaTimeBound(stack) == Len(stack)

\* DecideFormal with the depth == 1 test placed after the last-token rows.
DecideFormalLastFirst(stack, last) ==
    IF last = "" THEN Record(TRUE, FALSE, TRUE, None, None, FALSE)
    ELSE IF last \in {"Constant", "Feature"}
         THEN Record(TRUE, TRUE, TRUE, Some(Len(stack)), None, FALSE)
    ELSE IF last = "DeltaTime"
         THEN Record(FALSE, FALSE, FALSE, None, Some(FormalDeltaTimeBound(stack)), FALSE)
    ELSE IF Len(stack) = 1 THEN Record(TRUE, TRUE, TRUE, Some(1), None, TRUE)
    ELSE Record(TRUE, TRUE, TRUE, Some(Len(stack)), None, FALSE)

DecideFormal(stack, last) ==
    IF Len(stack) = 1 THEN Record(TRUE, TRUE, TRUE, Some(1), None, TRUE)
    ELSE IF last = "" THEN Record(TRUE, FALSE, TRUE, None, None, FALSE)
    ELSE IF last \in {"Constant", "Feature"}
         THEN Record(TRUE, TRUE, TRUE, Some(Len(stack)), None, FALSE)
    ELSE IF last = "DeltaTime"
         THEN Record(FALSE, FALSE, FALSE, None, Some(FormalDeltaTimeBound(stack)), FALSE)
    ELSE Record(TRUE, TRUE, TRUE, Some(Len(stack)), None, FALSE)

valid_next_token_formal(tl) ==
    LET r == ReplayFormal(tl, 1, <<>>, "") IN
    IF r.exc # "none" THEN [exc |-> r.exc, vnt |-> NoRecord]
    ELSE [exc |-> "none", vnt |-> DecideFormal(r.stack, r.last)]

(***************************************************************************)
(* valid_next_token_value: the replay applies the callables to the values   *)
(* (and so moves the queue of ref), then MinArity4Choose, then the decision.*)
(***************************************************************************)
RECURSIVE ReplayValue(_, _, _, _, _, _)
ReplayValue(tl, i, stack, last, data, q) ==
    IF i > Len(tl) THEN [exc |-> "none", stack |-> stack, last |-> last, q |-> q]
    ELSE LET token == tl[i] IN
         CASE token.kind = "SequenceIndicator" -> ReplayValue(tl, i + 1, stack, last, data, q)
           [] token.kind \in {"Constant", "DeltaTime"} ->
                ReplayValue(tl, i + 1, Append(stack, Some(token.val)), token.kind, data, q)
           [] token.kind = "Feature" ->
                \* FeatureToken.Val: kwargs[str(self.feature)]
                IF token.name \in DOMAIN data
                THEN ReplayValue(tl, i + 1, Append(stack, Some(data[token.name])), token.kind, data, q)
                ELSE [exc |-> "KeyError", stack |-> stack, last |-> last, q |-> q]
           [] token.kind = "Operator" ->
                LET arity == OpsArity(token.name) IN
                IF Len(stack) < arity
                THEN [exc |-> "IndexError", stack |-> stack, last |-> last, q |-> q]
                ELSE LET res == Apply(token.name, TopN(stack, arity), q) IN
                     IF res.exc # "none"
                     THEN [exc |-> res.exc, stack |-> stack, last |-> last, q |-> res.q]
                     ELSE ReplayValue(tl, i + 1, Append(PopN(stack, arity), res.val),
                                      token.kind, data, res.q)

\* The TS bound of the DeltaTime row of valid_next_token_value.
ValueDeltaTimeBound(stack) == Len(stack) - 1

\* DecideValue with the operator row bounded by len(stack) - 1 as well.
DecideValueOperatorRowShifted(stack, last) ==
    IF Len(stack) = 1 THEN Record(TRUE, TRUE, TRUE, Some(1), None, TRUE)
    ELSE IF last = "" THEN Record(TRUE, FALSE, TRUE, None, None, FALSE)
    ELSE IF last \in {"Constant", "Feature"}
         THEN Record(TRUE, TRUE, TRUE, Some(Len(stack)), None, FALSE)
    ELSE IF last = "DeltaTime"
         THEN Record(FALSE, FALSE, FALSE, None, Some(ValueDeltaTimeBound(stack)), FALSE)
    ELSE Record(TRUE, TRUE, TRUE, Some(Len(stack) - 1), None, FALSE)

DecideValue(stack, last) ==
    IF Len(stack) = 1 THEN Record(TRUE, TRUE, TRUE, Some(1), None, TRUE)
    ELSE IF last = "" THEN Record(TRUE, FALSE, TRUE, None, None, FALSE)
    ELSE IF last \in {"Constant", "Feature"}
         THEN Record(TRUE, TRUE, TRUE, Some(Len(stack)), None, FALSE)
    ELSE IF last = "DeltaTime"
         THEN Record(FALSE, FALSE, FALSE, None, Some(ValueDeltaTimeBound(stack)), FALSE)
    ELSE Record(TRUE, TRUE, TRUE, Some(Len(stack)), None, FALSE)

valid_next_token_value(tl, data, q, maxLen) ==
    LET r == ReplayValue(tl, 1, <<>>, "", data, q)
        remaining == maxLen - Len(tl)
    IN  IF r.exc # "none" THEN [exc |-> r.exc, vnt |-> NoRecord, q |-> r.q]
        \* MinArity4Choose = (len(stack)-1)/remaining + 1
        ELSE IF remaining = 0 THEN [exc |-> "ZeroDivisionError", vnt |-> NoRecord, q |-> r.q]
        ELSE [exc |-> "none", vnt |-> DecideValue(r.stack, r.last), q |-> r.q]

(***************************************************************************)
(* The action catalog and its mask.  A list argument that is None is {} and *)
(* a list l is {l}.                                                         *)
(***************************************************************************)
\* GetArityDict(ops)[1]: func_dict, operator name -> arity
func_dict == [o \in OpNames |-> OpsArity(o)]

\* Entries in which a list that is None is listed as one entry.
EntriesNoneListed(optList) == IF optList = None THEN <<"None">> ELSE ValOf(optList)

\* The entries one Optional list contributes to the catalog.
Entries(optList) == IF optList = None THEN <<>> ELSE ValOf(optList)

\* str(c) of a float c.  A float is held as its number of tenths (1.0 is
\* 10), and str renders the integer part, a point and the decimal.
RECURSIVE StrFloat(_)
StrFloat(t) ==
    IF t < 0 THEN "-" \o StrFloat(0 - t)
    ELSE ToString(t \div 10) \o "." \o ToString(t % 10)

StrFloats(l) == [i \in DOMAIN l |-> StrFloat(l[i])]

\* str(d) of an int d
StrAll(l) == [i \in DOMAIN l |-> ToString(l[i])]

\* GetActionSpace that lists the features before the constants.
GetActionSpaceFeaturesFirst(cs, fs, ds, csOps, tsOps) ==
    Entries(fs)
    \o (IF cs = None THEN <<>> ELSE StrFloats(ValOf(cs)))
    \o (IF ds = None THEN <<>> ELSE StrAll(ValOf(ds)))
    \o Entries(csOps)
    \o Entries(tsOps)
    \o <<Str(SEP_TOKEN)>>

GetActionSpace(cs, fs, ds, csOps, tsOps) ==
    (IF cs = None THEN <<>> ELSE StrFloats(ValOf(cs)))
    \o Entries(fs)
    \o (IF ds = None THEN <<>> ELSE StrAll(ValOf(ds)))
    \o Entries(csOps)
    \o Entries(tsOps)
    \o <<Str(SEP_TOKEN)>>

\* Repeat that fills the list with the opposite flag.
RepeatNegated(b, n) == [i \in 1..n |-> ~b]

\* [b] * n
Repeat(b, n) == [i \in 1..n |-> b]

\* MaskOPSpace that wants the arity strictly below the bound.
MaskOPSpaceStrict(func_arity_dict, ValidOPDict, Operators) ==
    IF ValidOPDict.Max = None THEN Repeat(FALSE, Len(Operators))
    ELSE [i \in DOMAIN Operators |-> func_arity_dict[Operators[i]] < ValOf(ValidOPDict.Max)]

MaskOPSpace(func_arity_dict, ValidOPDict, Operators) ==
    IF ValidOPDict.Max = None THEN Repeat(FALSE, Len(Operators))
    ELSE [i \in DOMAIN Operators |-> func_arity_dict[Operators[i]] <= ValOf(ValidOPDict.Max)]

MaskActionSpace(cs, fs, ds, csOps, tsOps, func_arity_dict, ValidDict) ==
    (IF cs # None THEN Repeat(ValidDict.Constant, Len(ValOf(cs))) ELSE <<>>)
    \o (IF fs # None THEN Repeat(ValidDict.Feature, Len(ValOf(fs))) ELSE <<>>)
    \o (IF ds # None THEN Repeat(ValidDict.DeltaTime, Len(ValOf(ds))) ELSE <<>>)
    \o (IF csOps # None
        THEN IF ValidDict.CSOperator.Max # None
             THEN MaskOPSpace(func_arity_dict, ValidDict.CSOperator, ValOf(csOps))
             ELSE Repeat(FALSE, Len(ValOf(csOps)))
        ELSE <<>>)
    \o (IF tsOps # None
        THEN IF ValidDict.TSOperator.Max # None
             THEN MaskOPSpace(func_arity_dict, ValidDict.TSOperator, ValOf(tsOps))
             ELSE Repeat(FALSE, Len(ValOf(tsOps)))
        ELSE <<>>)
    \o <<ValidDict.SEP>>

(***************************************************************************)
(* add_token_formal and add_token_value as functions of the builder state:  *)
(* the token list and the rendered-text list after the call, and the        *)
(* exception the call raised ("none" when it returned).                     *)
(***************************************************************************)
Appended(tl, expr, token) ==
    [tokenList |-> Append(tl, token), expression |-> Append(expr, Str(token)),
     exc |-> "none", msg |-> ""]

\* AppendedIndicator that renders the indicator into the text list too.
AppendedIndicatorWithText(tl, expr, token) ==
    [tokenList |-> Append(tl, token), expression |-> Append(expr, Str(token)),
     exc |-> "none", msg |-> ""]

\* The SequenceIndicatorToken branch appends to tokenList only.
AppendedIndicator(tl, expr, token) ==
    [tokenList |-> Append(tl, token), expression |-> expr, exc |-> "none", msg |-> ""]

Raised(tl, expr, exc, msg) ==
    [tokenList |-> tl, expression |-> expr, exc |-> exc, msg |-> msg]

\* `Max is None or Max < n_args`: the test of the CS branch of add_token_formal.
\* The result is the exception raised, "none" when the token goes on.
NoneOrBelow(max, n) == IF max = None \/ ValOf(max) < n THEN "ValueError" ELSE "none"

\* NoneAndBelow in which comparing None with an int is False instead of an
\* error.
NoneAndBelowNoTypeError(max, n) == "none"

\* `Max is None and Max < n_args`: the test of the other three operator
\* branches.  With Max None the right operand compares None with an int,
\* which raises TypeError; with Max a number the left operand is False and
\* the test is False whatever the arity.
NoneAndBelow(max, n) == IF max = None THEN "TypeError"
                        ELSE IF FALSE /\ ValOf(max) < n THEN "ValueError" ELSE "none"

\* FlagBranch that appends to tokenList before it tests the flag.
FlagBranchAppendFirst(tl, expr, token, flag) ==
    IF flag THEN Appended(tl, expr, token)
    ELSE Raised(Append(tl, token), expr, "ValueError", "illegal")

\* A Constant, DeltaTime or Feature branch: `if vnt[class]: append both
\* lists, else raise ValueError`.
FlagBranch(tl, expr, token, flag) ==
    IF flag THEN Appended(tl, expr, token)
    ELSE Raised(tl, expr, "ValueError", "illegal")

\* An operator branch: raise what the arity test raises, else append both lists.
OperatorBranch(tl, expr, token, test) ==
    IF test # "none" THEN Raised(tl, expr, test, "illegal")
    ELSE Appended(tl, expr, token)

\* IndicatorBranch that does not look at the SEP flag.
IndicatorBranchUnchecked(tl, expr, token, flag) == AppendedIndicator(tl, expr, token)

\* The SequenceIndicatorToken branch: `if vnt["SEP"]: tokenList.append(token)`.
IndicatorBranch(tl, expr, token, flag) ==
    IF flag THEN AppendedIndicator(tl, expr, token)
    ELSE Raised(tl, expr, "ValueError", "illegal")

\* The if / elif chain on the class of the token, given the legality record.
Dispatch(tl, expr, token, vnt, csTest, tsTest) ==
    CASE token.kind = "Constant" -> FlagBranch(tl, expr, token, vnt.Constant)
      [] token.kind = "DeltaTime" -> FlagBranch(tl, expr, token, vnt.DeltaTime)
      [] token.kind = "Feature" -> FlagBranch(tl, expr, token, vnt.Feature)
      [] token.kind = "Operator" /\ Optype(token.name) = "CS" ->
           OperatorBranch(tl, expr, token, csTest)
      [] token.kind = "Operator" /\ Optype(token.name) = "TS" ->
           OperatorBranch(tl, expr, token, tsTest)
      [] token.kind = "SequenceIndicator" -> IndicatorBranch(tl, expr, token, vnt.SEP)

\* HasRoom that lets a list of maxLen tokens grow once more.
HasRoomInclusive(tl, maxLen) == Len(tl) <= maxLen

\* `if len(self.tokenList) < self.maxLen`: the guard both add_token methods
\* open with; its else branch raises ValueError("The expression is full").
HasRoom(tl, maxLen) == Len(tl) < maxLen

add_token_formal(tl, expr, token, maxLen) ==
    IF HasRoom(tl, maxLen)
    THEN LET v == valid_next_token_formal(tl) IN
         IF v.exc # "none" THEN Raised(tl, expr, v.exc, "legality")
         ELSE Dispatch(tl, expr, token, v.vnt,
                       NoneOrBelow(v.vnt.CSOperator.Max, n_args(token.name)),
                       NoneAndBelow(v.vnt.TSOperator.Max, n_args(token.name)))
    ELSE Raised(tl, expr, "ValueError", "full")

add_token_value(tl, expr, data, token, q, maxLen) ==
    IF HasRoom(tl, maxLen)
    THEN LET v == valid_next_token_value(tl, data, q, maxLen) IN
         IF v.exc # "none" THEN Raised(tl, expr, v.exc, "legality")
         ELSE Dispatch(tl, expr, token, v.vnt,
                       NoneAndBelow(v.vnt.CSOperator.Max, n_args(token.name)),
                       NoneAndBelow(v.vnt.TSOperator.Max, n_args(token.name)))
    ELSE Raised(tl, expr, "ValueError", "full")

(***************************************************************************)
(* The inputs of the calls: the candidate tokens and the binding maps.      *)
(***************************************************************************)
Constants == <<3>>
Features == <<"close">>
DeltaTimes == <<1>>

Tokens == {ConstantToken(Constants[i]) : i \in DOMAIN Constants}
          \cup {FeatureToken(Features[i]) : i \in DOMAIN Features}
          \cup {DeltaTimeToken(DeltaTimes[i]) : i \in DOMAIN DeltaTimes}
          \cup {OperatorToken(o) : o \in OpNames}
          \cup {SEP_TOKEN, BEG_TOKEN}

\* Binding maps: one keyed by the feature name (what FeatureToken.Val looks
\* up), one keyed by the rendered text (what the example passes).
Datas == << ("close" :> 4), ("$close" :> 4) >>

(***************************************************************************)
(* RPNBase.evaluate: the function to_function builds, run over the rendered *)
(* texts of expression.                                                     *)
(***************************************************************************)
\* The numbers whose texts occur in the expressions of the model.
Literals == Range(Constants) \cup Range(DeltaTimes) \cup {4}

\* token.isdigit(): of the texts the model renders, those of the literals
\* that are non-negative integers consist of digits only.
IsDigit(s) == \E n \in Literals : n >= 0 /\ s = ToString(n)

\* float(token) of a text of digits
Float(s) == CHOOSE n \in Literals : s = ToString(n)

\* self.ops of the builder: default_ops, operator name -> arity.
default_ops == [o \in OpNames |-> OpsArity(o)]

\* ops is self.ops reduced to name -> arity; the callables are Apply's.
RECURSIVE EvaluateFrom(_, _, _, _, _, _)
EvaluateFrom(ops, expr, i, stack, variables, q) ==
    IF i > Len(expr)
    THEN \* return stack[0]
         IF stack = <<>> THEN [exc |-> "IndexError", val |-> None, q |-> q]
         ELSE [exc |-> "none", val |-> stack[1], q |-> q]
    ELSE LET token == expr[i] IN
         IF IsDigit(token)
         THEN EvaluateFrom(ops, expr, i + 1, Append(stack, Some(Float(token))), variables, q)
         ELSE IF token \in DOMAIN variables
         THEN EvaluateFrom(ops, expr, i + 1, Append(stack, Some(variables[token])),
                           variables, q)
         ELSE IF token \in DOMAIN ops
         THEN LET arity == ops[token] IN
              IF Len(stack) < arity THEN [exc |-> "IndexError", val |-> None, q |-> q]
              ELSE LET res == Apply(token, TopN(stack, arity), q) IN
                   IF res.exc # "none" THEN [exc |-> res.exc, val |-> None, q |-> res.q]
                   ELSE EvaluateFrom(ops, expr, i + 1, Append(PopN(stack, arity), res.val),
                                     variables, res.q)
         ELSE [exc |-> "InvalidExpressionError", val |-> None, q |-> q]

evaluate(ops, expr, variables, q) == EvaluateFrom(ops, expr, 1, <<>>, variables, q)

(***************************************************************************)
(* The state machine: one builder constructed on [BEG_TOKEN], and the calls *)
(* its owner makes.  call records the last call and how it ended.           *)
(***************************************************************************)
\* RPNBuilder.__init__: strexp holds str(op) of every token that is no
\* SequenceIndicatorToken.
RECURSIVE InitExpression(_)
InitExpression(tl) ==
    IF tl = <<>> THEN <<>>
    ELSE IF Head(tl).kind = "SequenceIndicator" THEN InitExpression(Tail(tl))
    ELSE <<Str(Head(tl))>> \o InitExpression(Tail(tl))

\* No catalog call made: every list None, no record, nothing returned.
NoMaskArgs ==
    [Constants |-> None, Features |-> None, DeltaTimes |-> None,
     CSOperators |-> None, TSOperators |-> None,
     func_arity_dict |-> func_dict, ValidDict |-> NoRecord]

NoMaskRet == [space |-> None, mask |-> None]

\* No evaluation loop under way.
NoStreams == [shared |-> FALSE, s |-> <<>>, q |-> <<>>, log |-> <<>>]

\* No RPNBase, no KEBase, no Operator and no GetArityDict call made.
NoRpn == [expression |-> <<>>, op |-> "init", data |-> 0, exc |-> "none", text |-> "",
          val |-> None, valid |-> FALSE]
NoTree == [value |-> "", children |-> <<>>]

NoKarva == [expression |-> <<>>, head_length |-> 0, op |-> "init", exc |-> "none",
            valid |-> FALSE, tree |-> NoTree, idx |-> 0, text |-> "", val |-> None]
NoOperators == [dict |-> <<>>, name |-> "", exc |-> "none"]

NoEnv == [op |-> "init", action |-> BEG_TOKEN, exc |-> "none", reward |-> None,
          done |-> FALSE, resets |-> 0]

NoArityDict == [ops |-> <<>>, op |-> "init", arity_dict |-> <<>>, func_dict |-> <<>>]

\* The token list the repository's example constructs its builder on.
ExampleTokens ==
    <<BEG_TOKEN, ConstantToken(3), FeatureToken("close"), OperatorToken("add"),
      DeltaTimeToken(1), OperatorToken("ref")>>

Init ==
    /\ tokenList = <<BEG_TOKEN>>
    /\ expression = InitExpression(<<BEG_TOKEN>>)
    /\ refq = RefInit
    /\ call = [op |-> "init", token |-> BEG_TOKEN, data |-> 0, exc |-> "none", msg |-> "",
               ret |-> None]
    /\ maskArgs = NoMaskArgs
    /\ maskRet = NoMaskRet
    /\ streams = NoStreams
    /\ rpn = NoRpn
    /\ karva = NoKarva
    /\ ops_available = NoOperators
    /\ arityDict = NoArityDict
    /\ env = NoEnv

AddTokenFormal(token) ==
    LET r == add_token_formal(tokenList, expression, token, MaxLen) IN
    /\ tokenList' = r.tokenList
    /\ expression' = r.expression
    /\ call' = [op |-> "add_token_formal", token |-> token, data |-> 0,
                exc |-> r.exc, msg |-> r.msg, ret |-> None]
    /\ UNCHANGED <<refq, otherVars>>

AddTokenValue(d, token) ==
    LET r == add_token_value(tokenList, expression, Datas[d], token, refq, MaxLen)
        \* the queue of ref moves only when the legality replay runs
        q == IF HasRoom(tokenList, MaxLen)
             THEN valid_next_token_value(tokenList, Datas[d], refq, MaxLen).q
             ELSE refq
    IN
    /\ tokenList' = r.tokenList
    /\ expression' = r.expression
    /\ refq' = q
    /\ call' = [op |-> "add_token_value", token |-> token, data |-> d,
                exc |-> r.exc, msg |-> r.msg, ret |-> None]
    /\ UNCHANGED otherVars

ValidNextTokenFormal ==
    /\ call' = [op |-> "valid_next_token_formal", token |-> BEG_TOKEN, data |-> 0,
                exc |-> valid_next_token_formal(tokenList).exc, msg |-> "",
                ret |-> None]
    /\ UNCHANGED <<tokenList, expression, refq, otherVars>>

ValidNextTokenValue(d) ==
    LET v == valid_next_token_value(tokenList, Datas[d], refq, MaxLen) IN
    /\ refq' = v.q
    /\ call' = [op |-> "valid_next_token_value", token |-> BEG_TOKEN, data |-> d,
                exc |-> v.exc, msg |-> "", ret |-> None]
    /\ UNCHANGED <<tokenList, expression, otherVars>>

\* rpn.evaluate(variables): the callables run on the builder's own ref
\* instance; ret is the value returned when the call returns.
Evaluate(d) ==
    LET e == evaluate(default_ops, expression, Datas[d], refq) IN
    /\ refq' = e.q
    /\ call' = [op |-> "evaluate", token |-> BEG_TOKEN, data |-> d,
                exc |-> e.exc, msg |-> "", ret |-> e.val]
    /\ UNCHANGED <<tokenList, expression, otherVars>>

Next ==
    \/ \E token \in Tokens : AddTokenFormal(token)
    \/ \E d \in DOMAIN Datas, token \in Tokens : AddTokenValue(d, token)
    \/ ValidNextTokenFormal
    \/ \E d \in DOMAIN Datas : ValidNextTokenValue(d)
    \/ \E d \in DOMAIN Datas : Evaluate(d)

Spec == Init /\ [][Next]_vars

\* The builder driven through add_token_formal alone.
NextFormal ==
    \/ \E token \in Tokens : AddTokenFormal(token)
    \/ ValidNextTokenFormal

SpecFormal == Init /\ [][NextFormal]_vars

\* The builder driven through add_token_value and valid_next_token_value
\* alone, every call with the binding map keyed by the feature name.
NextValue ==
    \/ \E token \in Tokens : AddTokenValue(1, token)
    \/ ValidNextTokenValue(1)

SpecValue == Init /\ [][NextValue]_vars

(***************************************************************************)
(* The catalog and the mask as functions of their arguments: the arguments  *)
(* are drawn from the lists, arity dictionaries and legality records below, *)
(* and each function is called on them.                                     *)
(***************************************************************************)
\* Constants are floats in tenths: [1.0] and [1.0, 2.0].
MaskConstants == {None, Some(<<10>>), Some(<<10, 20>>)}
MaskFeatures == {None, Some(<<"$feature1">>)}
MaskDeltaTimes == {None, Some(<<1>>)}
MaskCSOperators == {None, Some(<<"+">>), Some(<<"+", "-">>)}
MaskTSOperators == {None, Some(<<"ref">>)}

MaskArityDicts == { ("+" :> 2 @@ "-" :> 3 @@ "ref" :> 1),
                    ("+" :> 2 @@ "-" :> 2 @@ "ref" :> 2) }

MaskBounds == {None, Some(1), Some(2), Some(3)}

MaskRecords ==
    {Record(c, d, f, cs, ts, sep) :
       c \in BOOLEAN, d \in BOOLEAN, f \in BOOLEAN,
       cs \in MaskBounds, ts \in MaskBounds \ {Some(3)}, sep \in BOOLEAN}

InitMask ==
    /\ tokenList = <<BEG_TOKEN>>
    /\ expression = InitExpression(<<BEG_TOKEN>>)
    /\ refq = RefInit
    /\ call = [op |-> "init", token |-> BEG_TOKEN, data |-> 0, exc |-> "none", msg |-> "",
               ret |-> None]
    /\ maskArgs \in [Constants : MaskConstants, Features : MaskFeatures,
                     DeltaTimes : MaskDeltaTimes, CSOperators : MaskCSOperators,
                     TSOperators : MaskTSOperators, func_arity_dict : MaskArityDicts,
                     ValidDict : MaskRecords]
    /\ maskRet = NoMaskRet
    /\ streams = NoStreams
    /\ rpn = NoRpn
    /\ karva = NoKarva
    /\ ops_available = NoOperators
    /\ arityDict = NoArityDict
    /\ env = NoEnv

CallGetActionSpace ==
    /\ maskRet' = [maskRet EXCEPT !.space =
                     Some(GetActionSpace(maskArgs.Constants, maskArgs.Features,
                                         maskArgs.DeltaTimes, maskArgs.CSOperators,
                                         maskArgs.TSOperators))]
    /\ UNCHANGED exceptMaskRet

CallMaskActionSpace ==
    /\ maskRet' = [maskRet EXCEPT !.mask =
                     Some(MaskActionSpace(maskArgs.Constants, maskArgs.Features,
                                          maskArgs.DeltaTimes, maskArgs.CSOperators,
                                          maskArgs.TSOperators, maskArgs.func_arity_dict,
                                          maskArgs.ValidDict))]
    /\ UNCHANGED exceptMaskRet

NextMask ==
    \/ CallGetActionSpace
    \/ CallMaskActionSpace

SpecMask == InitMask /\ [][NextMask]_vars

(***************************************************************************)
(* Two evaluation loops (the function to_function returns) running side by  *)
(* side, one token of the loop or one queue operation of ref.calc at a      *)
(* step.  Each loop calls its own ref instance, or both call the first one. *)
(* log lists, in order, the loop of every queue operation.                  *)
(***************************************************************************)
\* The expression of the example, and one more holding the TS operator.
StreamExpressions == {InitExpression(ExampleTokens), <<"$close", "1", "ref">>}

\* The binding maps of the example's two evaluate calls.
StreamDatas == {("$close" :> 4), ("$close" :> 5)}

\* default_ops of the example
StreamOps == ("add" :> 2 @@ "ref" :> 2)

\* InstanceOf with one instance for both loops, whatever was asked.
InstanceOfFirst(shared, i) == 1

\* The ref instance loop i calls.
InstanceOf(shared, i) == IF shared THEN 1 ELSE i

NewStream(expr, data) ==
    [expr |-> expr, data |-> data, pc |-> 1, stack |-> <<>>, phase |-> "run",
     exc |-> "none", ret |-> None]

InitStreams ==
    /\ tokenList = <<BEG_TOKEN>>
    /\ expression = InitExpression(<<BEG_TOKEN>>)
    /\ refq = RefInit
    /\ call = [op |-> "init", token |-> BEG_TOKEN, data |-> 0, exc |-> "none", msg |-> "",
               ret |-> None]
    /\ maskArgs = NoMaskArgs
    /\ maskRet = NoMaskRet
    /\ rpn = NoRpn
    /\ karva = NoKarva
    /\ ops_available = NoOperators
    /\ arityDict = NoArityDict
    /\ env = NoEnv
    /\ \E shared \in BOOLEAN, e1 \in StreamExpressions, e2 \in StreamExpressions,
          d1 \in StreamDatas, d2 \in StreamDatas :
         streams = [shared |-> shared, s |-> <<NewStream(e1, d1), NewStream(e2, d2)>>,
                    q |-> <<RefInit, RefInit>>, log |-> <<>>]

\* The token loop i is at, "" past the end.
TokenAt(i) ==
    LET st == streams.s[i] IN IF st.pc > Len(st.expr) THEN "" ELSE st.expr[st.pc]

Running(i) == streams.s[i].phase = "run" /\ streams.s[i].pc <= Len(streams.s[i].expr)

IsOperand(st, token) == IsDigit(token) \/ token \in DOMAIN st.data

\* A digit text or a bound variable is pushed; a token that is neither of
\* these nor an operator raises InvalidExpressionError.
StreamOperand(i) ==
    LET st == streams.s[i]
        token == TokenAt(i)
    IN  /\ Running(i)
        /\ token \notin DOMAIN StreamOps \/ IsOperand(st, token)
        /\ streams' = [streams EXCEPT !.s[i] =
              IF IsDigit(token)
              THEN [st EXCEPT !.stack = Append(@, Some(Float(token))), !.pc = @ + 1]
              ELSE IF token \in DOMAIN st.data
              THEN [st EXCEPT !.stack = Append(@, Some(st.data[token])), !.pc = @ + 1]
              ELSE [st EXCEPT !.phase = "done", !.exc = "InvalidExpressionError"]]
        /\ UNCHANGED exceptStreams

\* An operator without state pops its arguments and pushes its result; any
\* operator raises IndexError when the stack holds fewer values than its arity.
StreamOperator(i) ==
    LET st == streams.s[i]
        token == TokenAt(i)
    IN  /\ Running(i)
        /\ token \in DOMAIN StreamOps /\ ~IsOperand(st, token)
        /\ token # "ref" \/ Len(st.stack) < StreamOps[token]
        /\ streams' = [streams EXCEPT !.s[i] =
              IF Len(st.stack) < StreamOps[token]
              THEN [st EXCEPT !.phase = "done", !.exc = "IndexError"]
              ELSE LET res == Apply(token, TopN(st.stack, StreamOps[token]), <<>>) IN
                   IF res.exc # "none" THEN [st EXCEPT !.phase = "done", !.exc = res.exc]
                   ELSE [st EXCEPT !.stack = Append(PopN(@, StreamOps[token]), res.val),
                                   !.pc = @ + 1]]
        /\ UNCHANGED exceptStreams

\* ref.calc, first half: q.put(v) on the instance of the loop.
StreamPut(i) ==
    LET st == streams.s[i]
        k == InstanceOf(streams.shared, i)
    IN  /\ Running(i)
        /\ TokenAt(i) = "ref" /\ ~IsOperand(st, "ref")
        /\ Len(st.stack) >= StreamOps["ref"]
        /\ Len(streams.q[k]) < RefCapacity(Len(RefInit))
        /\ streams' = [streams EXCEPT
              !.s[i] = [st EXCEPT !.phase = "get"],
              !.q[k] = RefPut(TopN(st.stack, StreamOps["ref"])[1], @),
              !.log = Append(@, i)]
        /\ UNCHANGED exceptStreams

\* ref.calc, second half: return q.get(); the result replaces the arguments.
StreamGet(i) ==
    LET st == streams.s[i]
        k == InstanceOf(streams.shared, i)
    IN  /\ st.phase = "get"
        /\ streams.q[k] # <<>>
        /\ streams' = [streams EXCEPT
              !.s[i] = [st EXCEPT !.phase = "run", !.pc = @ + 1,
                                  !.stack = Append(PopN(@, StreamOps["ref"]),
                                                   RefGet(streams.q[k]).val)],
              !.q[k] = RefGet(@).q,
              !.log = Append(@, i)]
        /\ UNCHANGED exceptStreams

\* return stack[0]
StreamReturn(i) ==
    LET st == streams.s[i] IN
    /\ st.phase = "run" /\ st.pc > Len(st.expr)
    /\ streams' = [streams EXCEPT !.s[i] =
          IF st.stack = <<>> THEN [st EXCEPT !.phase = "done", !.exc = "IndexError"]
          ELSE [st EXCEPT !.phase = "done", !.ret = st.stack[1]]]
    /\ UNCHANGED exceptStreams

NextStreams ==
    \E i \in {1, 2} :
      \/ StreamOperand(i)
      \/ StreamOperator(i)
      \/ StreamPut(i)
      \/ StreamGet(i)
      \/ StreamReturn(i)

SpecStreams == InitStreams /\ [][NextStreams]_vars

(***************************************************************************)
(* RPNBase built on an expression handed in from outside: to_string and     *)
(* evaluate over every text list up to MaxExprLen.                          *)
(***************************************************************************)
\* A builder on [BEG_TOKEN] that nothing has been called on.
FreshBuilder ==
    /\ tokenList = <<BEG_TOKEN>>
    /\ expression = InitExpression(<<BEG_TOKEN>>)
    /\ refq = RefInit
    /\ call = [op |-> "init", token |-> BEG_TOKEN, data |-> 0, exc |-> "none", msg |-> "",
               ret |-> None]

\* ', '.join(texts)
RECURSIVE Join(_)
Join(texts) ==
    IF texts = <<>> THEN ""
    ELSE IF Len(texts) = 1 THEN texts[1]
    ELSE texts[1] \o ", " \o Join(Tail(texts))

\* PopArgs that hands the popped values over in pop order.
PopArgsPopOrder(stack, arity) ==
    IF Len(stack) < arity THEN [exc |-> "IndexError", args |-> <<>>, rest |-> stack]
    ELSE [exc |-> "none",
          args |-> [i \in 1..arity |-> stack[Len(stack) + 1 - i]],
          rest |-> PopN(stack, arity)]

\* PopArgs that takes what the stack holds when it holds too little.
PopArgsLenient(stack, arity) ==
    IF Len(stack) < arity THEN [exc |-> "none", args |-> stack, rest |-> <<>>]
    ELSE [exc |-> "none", args |-> TopN(stack, arity), rest |-> PopN(stack, arity)]

\* [stack.pop() for _ in range(arity)][::-1]: pop on an empty list raises
\* IndexError.
PopArgs(stack, arity) ==
    IF Len(stack) < arity THEN [exc |-> "IndexError", args |-> <<>>, rest |-> stack]
    ELSE [exc |-> "none", args |-> TopN(stack, arity), rest |-> PopN(stack, arity)]

RECURSIVE ToStringFrom(_, _, _, _)
ToStringFrom(ops, expr, i, stack) ==
    IF i > Len(expr)
    THEN \* return stack[0]
         IF stack = <<>> THEN [exc |-> "IndexError", text |-> ""]
         ELSE [exc |-> "none", text |-> stack[1]]
    ELSE LET token == expr[i] IN
         IF IsDigit(token) THEN ToStringFrom(ops, expr, i + 1, Append(stack, token))
         ELSE IF token \in DOMAIN ops
         THEN LET p == PopArgs(stack, ops[token]) IN
              IF p.exc # "none" THEN [exc |-> p.exc, text |-> ""]
              ELSE ToStringFrom(ops, expr, i + 1,
                                Append(p.rest, token \o "(" \o Join(p.args) \o ")"))
         ELSE ToStringFrom(ops, expr, i + 1, Append(stack, token))

to_string(ops, expr) == ToStringFrom(ops, expr, 1, <<>>)

\* isinstance(token, str): every token of the model is a text.
IsStr(token) == token \in STRING

\* RPNBase.validate_expression; the stack holds the operand texts and the
\* dummy 0 of an applied operator, of which only the count is read.
RECURSIVE ValidateFrom(_, _, _, _)
ValidateFrom(ops, expr, i, depth) ==
    IF i > Len(expr) THEN depth = 1
    ELSE LET token == expr[i] IN
         IF IsDigit(token) \/ IsStr(token) THEN ValidateFrom(ops, expr, i + 1, depth + 1)
         ELSE IF token \in DOMAIN ops
         THEN IF depth < ops[token] THEN FALSE
              ELSE ValidateFrom(ops, expr, i + 1, depth - ops[token] + 1)
         ELSE FALSE

RPNBase_validate_expression(ops, expr) == ValidateFrom(ops, expr, 1, 0)

\* The longest expression handed to RPNBase.
MaxExprLen == 4

RpnTexts == {"3", "4", "x", "+", "-"}

RpnOps == ("+" :> 2 @@ "-" :> 2)

\* evaluate({'x': 5}) and evaluate() (variables or {})
RpnDatas == << ("x" :> 5), <<>> >>

InitRpn ==
    /\ FreshBuilder
    /\ maskArgs = NoMaskArgs
    /\ maskRet = NoMaskRet
    /\ streams = NoStreams
    /\ karva = NoKarva
    /\ ops_available = NoOperators
    /\ arityDict = NoArityDict
    /\ env = NoEnv
    /\ \E n \in 0..MaxExprLen : \E e \in [1..n -> RpnTexts] :
         rpn = [NoRpn EXCEPT !.expression = e]

RpnToString ==
    LET r == to_string(RpnOps, rpn.expression) IN
    /\ rpn' = [rpn EXCEPT !.op = "to_string", !.data = 0, !.exc = r.exc, !.text = r.text,
                          !.val = None, !.valid = FALSE]
    /\ UNCHANGED exceptRpn

RpnEvaluate(d) ==
    LET r == evaluate(RpnOps, rpn.expression, RpnDatas[d], RefInit) IN
    /\ rpn' = [rpn EXCEPT !.op = "evaluate", !.data = d, !.exc = r.exc, !.text = "",
                          !.val = r.val, !.valid = FALSE]
    /\ UNCHANGED exceptRpn

RpnValidate ==
    /\ rpn' = [rpn EXCEPT !.op = "validate_expression", !.data = 0, !.exc = "none",
                          !.text = "", !.val = None,
                          !.valid = RPNBase_validate_expression(RpnOps, rpn.expression)]
    /\ UNCHANGED exceptRpn

NextRpn ==
    \/ RpnToString
    \/ RpnValidate
    \/ \E d \in DOMAIN RpnDatas : RpnEvaluate(d)

SpecRpn == InitRpn /\ [][NextRpn]_vars

(***************************************************************************)
(* KEBase: a flat head/tail expression validated once, then turned into a   *)
(* tree and rendered.  A number token is held as its str() text; a tree is  *)
(* a record [value, children] with children a sequence of trees.            *)
(***************************************************************************)
SetMax(S) == CHOOSE m \in S : \A n \in S : n <= m

\* self.expression[self.head_length:] started one token late.
TailSliceSkipFirst(expr, h) == SubSeq(expr, h + 2, Len(expr))

\* A tail of one terminal whatever the head.
TailLengthOneLeaf(ops, h) == 1

\* self.expression[self.head_length:]
TailSlice(expr, h) == SubSeq(expr, h + 1, Len(expr))

\* tail_length without the closing terminal.
TailLengthNoLeaf(ops, h) == h * (SetMax({ops[o] : o \in DOMAIN ops}) - 1)

\* tail_length = self.head_length*(max_arity-1) + 1
TailLength(ops, h) == h * (SetMax({ops[o] : o \in DOMAIN ops}) - 1) + 1

validate_expression(ops, expr, h) ==
    IF Len(expr) <= h THEN FALSE
    ELSE IF Len(expr) < h + TailLength(ops, h) THEN FALSE
    ELSE IF \E i \in DOMAIN TailSlice(expr, h) : TailSlice(expr, h)[i] \in DOMAIN ops
    THEN FALSE
    ELSE TRUE

\* add_child that puts the new child in front.
AddChildFirst(node, child_node) ==
    [node EXCEPT !.children = <<child_node>> \o @]

\* TreeNode.add_child
AddChild(node, child_node) ==
    [node EXCEPT !.children = Append(@, child_node)]

\* build_subtree with idx made explicit: the result carries the node and
\* the cursor after it.  BuildChildren is the loop for _ in range(arity).
RECURSIVE BuildSubtree(_, _, _)
RECURSIVE BuildChildren(_, _, _, _, _)
BuildSubtree(ops, expr, idx) ==
    IF idx > Len(expr) THEN [exc |-> "IndexError", node |-> NoTree, idx |-> idx]
    ELSE LET token == expr[idx]
             node == [value |-> token, children |-> <<>>]
         IN IF token \in DOMAIN ops
            THEN BuildChildren(ops, expr, idx + 1, ops[token], node)
            ELSE [exc |-> "none", node |-> node, idx |-> idx + 1]

BuildChildren(ops, expr, idx, left, node) ==
    IF left = 0 THEN [exc |-> "none", node |-> node, idx |-> idx]
    ELSE LET c == BuildSubtree(ops, expr, idx) IN
         IF c.exc # "none" THEN [exc |-> c.exc, node |-> NoTree, idx |-> c.idx]
         ELSE BuildChildren(ops, expr, c.idx, left - 1, AddChild(node, c.node))

\* idx = 0; return build_subtree()
build_tree(ops, expr) == BuildSubtree(ops, expr, 1)

RECURSIVE tree_to_string(_, _)
tree_to_string(ops, node) ==
    IF node.value \in DOMAIN ops
    THEN node.value \o "("
           \o Join([i \in DOMAIN node.children |-> tree_to_string(ops, node.children[i])])
           \o ")"
    ELSE node.value

\* evaluate_tree on a tree of texts: a bound variable, an operator applied
\* to its evaluated children, or an error.  EvaluateChildren is the list
\* comprehension over node.children.
RECURSIVE evaluate_tree(_, _, _)
RECURSIVE EvaluateChildren(_, _, _, _, _)
evaluate_tree(ops, node, variables) ==
    IF node.value \in DOMAIN variables
    THEN [exc |-> "none", val |-> Some(variables[node.value])]
    ELSE IF node.value \in DOMAIN ops
    THEN LET a == EvaluateChildren(ops, node.children, 1, <<>>, variables) IN
         IF a.exc # "none" THEN [exc |-> a.exc, val |-> None]
         ELSE LET res == Apply(node.value, a.args, <<>>) IN
              [exc |-> res.exc, val |-> res.val]
    ELSE [exc |-> "InvalidKarvaExpressionError", val |-> None]

EvaluateChildren(ops, children, i, args, variables) ==
    IF i > Len(children) THEN [exc |-> "none", args |-> args]
    ELSE LET c == evaluate_tree(ops, children[i], variables) IN
         IF c.exc # "none" THEN [exc |-> c.exc, args |-> <<>>]
         ELSE EvaluateChildren(ops, children, i + 1, Append(args, c.val), variables)

\* The longest enumerated Karva expression.
MaxKarvaLen == 5

KarvaTexts == {"+", "neg", "a", "b"}

KarvaOps == ("+" :> 2 @@ "-" :> 2 @@ "*" :> 2 @@ "neg" :> 1)

HeadLengths == 0..3

\* The expression of build_tree's docstring, and its first seven tokens.
DocExpression == <<"+", "-", "*", "a", "b", "c", "d", "e", "f">>

KarvaExpressions ==
    UNION {[1..n -> KarvaTexts] : n \in 0..MaxKarvaLen}
        \cup {DocExpression, SubSeq(DocExpression, 1, 7)}

InitKarva ==
    /\ FreshBuilder
    /\ maskArgs = NoMaskArgs
    /\ maskRet = NoMaskRet
    /\ streams = NoStreams
    /\ rpn = NoRpn
    /\ ops_available = NoOperators
    /\ arityDict = NoArityDict
    /\ env = NoEnv
    /\ \E e \in KarvaExpressions : \E h \in HeadLengths :
         karva = [NoKarva EXCEPT !.expression = e, !.head_length = h]

\* evaluate({'a': 4, 'b': 5, 'c': 1, 'd': 3})
KarvaData == ("a" :> 4 @@ "b" :> 5 @@ "c" :> 1 @@ "d" :> 3)

KarvaValidate ==
    /\ karva' = [karva EXCEPT !.op = "validate", !.exc = "none",
                              !.valid = validate_expression(KarvaOps, karva.expression,
                                                            karva.head_length),
                              !.tree = NoTree, !.idx = 0, !.text = "", !.val = None]
    /\ UNCHANGED exceptKarva

KarvaBuildTree ==
    LET r == build_tree(KarvaOps, karva.expression) IN
    /\ karva' = [karva EXCEPT !.op = "build_tree", !.exc = r.exc, !.valid = FALSE,
                              !.tree = r.node, !.idx = r.idx - 1, !.text = "",
                              !.val = None]
    /\ UNCHANGED exceptKarva

KarvaToString ==
    LET r == build_tree(KarvaOps, karva.expression) IN
    /\ karva' = [karva EXCEPT !.op = "to_string", !.exc = r.exc, !.valid = FALSE,
                              !.tree = r.node, !.idx = r.idx - 1,
                              !.text = IF r.exc = "none"
                                       THEN tree_to_string(KarvaOps, r.node) ELSE "",
                              !.val = None]
    /\ UNCHANGED exceptKarva

\* evaluate(variables): build_tree, then evaluate_tree on its result.
KarvaEvaluate ==
    LET r == build_tree(KarvaOps, karva.expression)
        e == IF r.exc = "none" THEN evaluate_tree(KarvaOps, r.node, KarvaData)
             ELSE [exc |-> r.exc, val |-> None]
    IN
    /\ karva' = [karva EXCEPT !.op = "evaluate", !.exc = e.exc, !.valid = FALSE,
                              !.tree = r.node, !.idx = r.idx - 1, !.text = "",
                              !.val = e.val]
    /\ UNCHANGED exceptKarva

NextKarva ==
    \/ KarvaValidate
    \/ KarvaBuildTree
    \/ KarvaToString
    \/ KarvaEvaluate

SpecKarva == InitKarva /\ [][NextKarva]_vars

(***************************************************************************)
(* Operator: the class-level registry ops_available, name -> callable.      *)
(***************************************************************************)
OperatorNames == {"add", "ref", "+", "-"}

\* The callables handed to Operator(...), by name.
Callables == {"add", "r.calc", "lambda"}

\* cls.ops_available[op.name] = op.callable
add_dict(dict, name, callable) == (name :> callable) @@ dict

InitOperators ==
    /\ FreshBuilder
    /\ maskArgs = NoMaskArgs
    /\ maskRet = NoMaskRet
    /\ streams = NoStreams
    /\ rpn = NoRpn
    /\ karva = NoKarva
    /\ arityDict = NoArityDict
    /\ env = NoEnv
    /\ ops_available = NoOperators

\* Operator(name, Optype, callable, argTypeList): the fields of the new
\* object are its own; the registry is what it shares.
OperatorInit(name, callable) ==
    /\ ops_available' = [dict |-> add_dict(ops_available.dict, name, callable),
                         name |-> name, exc |-> "none"]
    /\ UNCHANGED exceptOpsAvailable

NextOperators == \E name \in OperatorNames : \E callable \in Callables :
                     OperatorInit(name, callable)

SpecOperators == InitOperators /\ [][NextOperators]_vars

(***************************************************************************)
(* GetArityDict over an operators dictionary, held as the sequence of its   *)
(* (name, arity) items in insertion order.                                  *)
(***************************************************************************)
ArityNames == {"+", "-", "neg", "sum3"}

Arities == 1..3

\* Every dictionary over ArityNames: distinct names in some order, each
\* with an arity.
OpsDicts ==
    {ops \in UNION {[1..n -> ArityNames \X Arities] : n \in 0..Cardinality(ArityNames)} :
        \A i, j \in DOMAIN ops : i # j => ops[i][1] # ops[j][1]}

\* arity_dict[arity] with the name put in front.
BucketPrepend(arity_dict, arity, op) ==
    [arity_dict EXCEPT ![arity] = <<op>> \o @]

\* arity_dict[arity].append(op)
BucketAppend(arity_dict, arity, op) ==
    [arity_dict EXCEPT ![arity] = Append(@, op)]

RECURSIVE GetArityDictFrom(_, _, _, _)
GetArityDictFrom(ops, i, arity_dict, funcs) ==
    IF i > Len(ops) THEN [arity_dict |-> arity_dict, func_dict |-> funcs]
    ELSE LET op == ops[i][1]
             arity == ops[i][2]
             withBucket == IF arity \notin DOMAIN arity_dict
                           THEN (arity :> <<>>) @@ arity_dict
                           ELSE arity_dict
         IN GetArityDictFrom(ops, i + 1, BucketAppend(withBucket, arity, op),
                             (op :> arity) @@ funcs)

GetArityDict(ops) == GetArityDictFrom(ops, 1, <<>>, <<>>)

InitArityDict ==
    /\ FreshBuilder
    /\ maskArgs = NoMaskArgs
    /\ maskRet = NoMaskRet
    /\ streams = NoStreams
    /\ rpn = NoRpn
    /\ karva = NoKarva
    /\ ops_available = NoOperators
    /\ env = NoEnv
    /\ \E ops \in OpsDicts : arityDict = [NoArityDict EXCEPT !.ops = ops]

CallGetArityDict ==
    LET r == GetArityDict(arityDict.ops) IN
    /\ arityDict' = [arityDict EXCEPT !.op = "GetArityDict", !.arity_dict = r.arity_dict,
                                      !.func_dict = r.func_dict]
    /\ UNCHANGED exceptArityDict

NextArityDict == CallGetArityDict

SpecArityDict == InitArityDict /\ [][NextArityDict]_vars

(***************************************************************************)
(* RegressionEnv: reset and step on the builder the env owns.  The env's    *)
(* data {'x': ..., 'y': ...} is the binding map keyed by the feature name,  *)
(* and the builder's max_length is MAX_EXPR_LENGTH.                         *)
(***************************************************************************)
\* The length cap of the env's builder, reduced from the source's 20.
MAX_EXPR_LENGTH == 4

\* How many times reset is called.
MaxResets == 1

\* The member SEP of the enum, as opposed to the token SEP_TOKEN.
SequenceIndicatorType_SEP == [kind |-> "SequenceIndicatorType", name |-> "SEP", val |-> 1]

\* {'x': self.x, 'y': self.y}
EnvData == Datas[1]

\* What the caller hands to step.
EnvActions ==
    {ConstantToken(Constants[1]), FeatureToken(Features[1]), OperatorToken(CSOperators[1]),
     SEP_TOKEN, SequenceIndicatorType_SEP}

\* _evaluate: the builder's evaluate, and -1 for any exception.
_evaluate(expr, q) ==
    LET e == evaluate(default_ops, expr, EnvData, q) IN
    [reward |-> IF e.exc # "none" THEN Some(0 - 1) ELSE e.val, q |-> e.q]

\* reward = self._evaluate(); done = True
Evaluated(tl, expr, ev) ==
    [tokenList |-> tl, expression |-> expr, q |-> ev.q, exc |-> "none",
     reward |-> ev.reward, done |-> TRUE]

\* self._builder.add_token_value(data, action); reward = 0; done = False.
\* r is what add_token_value did, v the legality replay it ran.
Added(r, v) ==
    [tokenList |-> r.tokenList, expression |-> r.expression, q |-> v.q,
     exc |-> r.exc, reward |-> Some(0), done |-> FALSE]

\* The if / elif / else of step: the builder after it, the reward and the
\* flag, or the exception add_token_value raised.
StepBranch(tl, expr, q, action) ==
    IF action = SequenceIndicatorType_SEP
    THEN Evaluated(tl, expr, _evaluate(expr, q))
    ELSE IF Len(tl) < MAX_EXPR_LENGTH
    THEN Added(add_token_value(tl, expr, EnvData, action, q, MAX_EXPR_LENGTH),
               valid_next_token_value(tl, EnvData, q, MAX_EXPR_LENGTH))
    ELSE IF RPNBase_validate_expression(default_ops, expr)
         THEN Evaluated(tl, expr, _evaluate(expr, q))
         ELSE [tokenList |-> tl, expression |-> expr, q |-> q, exc |-> "none",
               reward |-> Some(0 - 1), done |-> TRUE]

\* The return statement: the legality record is computed last, and what it
\* raises is what step raises.
Returned(b, v) ==
    IF v.exc # "none" THEN [b EXCEPT !.q = v.q, !.exc = v.exc, !.reward = None, !.done = FALSE]
    ELSE [b EXCEPT !.q = v.q]

\* After the branch: an exception of add_token_value ends the call, and
\* math.isnan(reward) raises TypeError on None.
AfterBranch(b) ==
    IF b.exc # "none" THEN [b EXCEPT !.reward = None, !.done = FALSE]
    ELSE IF b.reward = None THEN [b EXCEPT !.exc = "TypeError", !.done = FALSE]
    ELSE Returned(b, valid_next_token_value(b.tokenList, EnvData, b.q, MAX_EXPR_LENGTH))

step(tl, expr, q, action) == AfterBranch(StepBranch(tl, expr, q, action))

\* The builder and the env record after step returned or raised.
Stepped(r, action) ==
    /\ tokenList' = r.tokenList
    /\ expression' = r.expression
    /\ refq' = r.q
    /\ env' = [env EXCEPT !.op = "step", !.action = action, !.exc = r.exc,
                          !.reward = r.reward, !.done = r.done]

Step(action) ==
    /\ Stepped(step(tokenList, expression, refq, action), action)
    /\ UNCHANGED exceptEnv

\* reset: reseed_everything touches the random generators only.
Reset ==
    /\ env.resets < MaxResets
    /\ tokenList' = <<BEG_TOKEN>>
    /\ env' = [env EXCEPT !.op = "reset", !.action = BEG_TOKEN, !.exc = "none",
                          !.reward = None, !.done = FALSE, !.resets = @ + 1]
    /\ UNCHANGED <<expression, refq, exceptEnv>>

NextEnv ==
    \/ \E action \in EnvActions : Step(action)
    \/ Reset

SpecEnv == Init /\ [][NextEnv]_vars

(***************************************************************************)
(* Properties.                                                              *)
(***************************************************************************)
IsAdd(c) == c.op \in {"add_token_formal", "add_token_value"}

\* The legality record of the mode of call c, computed on the state the call
\* starts from (used unprimed in action formulas).
PreRecord(c) ==
    IF c.op = "add_token_formal" THEN valid_next_token_formal(tokenList)
    ELSE LET v == valid_next_token_value(tokenList, Datas[c.data], refq, MaxLen)
         IN  [exc |-> v.exc, vnt |-> v.vnt]

\* The replay of the first n tokens in formal mode.
FormalPrefix(n) == ReplayFormal(SubSeq(tokenList, 1, n), 1, <<>>, "")

\* The class bound the record holds for operator o.
ClassBound(vnt, o) == IF Optype(o) = "CS" THEN vnt.CSOperator.Max ELSE vnt.TSOperator.Max

WithinBound(vnt, o) == ClassBound(vnt, o) # None /\ n_args(o) <= ValOf(ClassBound(vnt, o))

\* The catalog of the model's inputs, the token each entry stands for, and
\* the position of a token in it.
ActionTokens ==
    [i \in DOMAIN Constants |-> ConstantToken(Constants[i])]
    \o [i \in DOMAIN Features |-> FeatureToken(Features[i])]
    \o [i \in DOMAIN DeltaTimes |-> DeltaTimeToken(DeltaTimes[i])]
    \o [i \in DOMAIN CSOperators |-> OperatorToken(CSOperators[i])]
    \o [i \in DOMAIN TSOperators |-> OperatorToken(TSOperators[i])]
    \o <<SEP_TOKEN>>

ActionIndex(token) == CHOOSE i \in DOMAIN ActionTokens : ActionTokens[i] = token

Mask(vnt) == MaskActionSpace(Some(Constants), Some(Features), Some(DeltaTimes),
                             Some(CSOperators), Some(TSOperators), func_dict, vnt)

\* C1: in a sequence built from [Begin] by successful add_token_formal calls
\* alone, the formal replay of every prefix succeeds (no pop from an empty
\* stack), and the depth is 1 when a Separator has just been accepted.
C1_ReplayNeverUnderflows ==
    /\ \A n \in 1..Len(tokenList) : FormalPrefix(n).exc = "none"
    /\ (call.op = "add_token_formal" /\ call.exc = "none" /\ call.token = SEP_TOKEN)
         => Len(FormalPrefix(Len(tokenList)).stack) = 1

\* C2: add_token appends an operator only if the bound of its class is not
\* None and its arity is at most the bound; every other operator candidate
\* is rejected with ValueError and nothing is appended.
C2_OperatorWithinBoundOrValueError ==
    [][ (IsAdd(call') /\ call'.token.kind = "Operator" /\ PreRecord(call').exc = "none")
          => LET ok == WithinBound(PreRecord(call').vnt, call'.token.name) IN
             /\ (tokenList' # tokenList) => ok
             /\ (~ok) => (call'.exc = "ValueError" /\ tokenList' = tokenList
                          /\ expression' = expression) ]_vars

\* C3: for every action of the catalog, the mask of the current legality
\* record marks it true exactly when add_token of its token succeeds (same
\* mode for the record and the call).
C3_MaskAgreesWithAddToken ==
    [][ (IsAdd(call') /\ call'.token \in Range(ActionTokens) /\ PreRecord(call').exc = "none")
          => (Mask(PreRecord(call').vnt)[ActionIndex(call'.token)] <=> call'.exc = "none") ]_vars

\* The DeltaTime row of the decision table for depth d.
DeltaTimeRow(d) == Record(FALSE, FALSE, FALSE, None, Some(d - 1), FALSE)

\* C4: when the last token is a DeltaTime and the depth is not 1, the record
\* is the DeltaTime row with TS bound depth - 1, in formal mode and in value
\* mode.
C4_DeltaTimeRowBothModes ==
    LET r == FormalPrefix(Len(tokenList)) IN
    (r.exc = "none" /\ r.last = "DeltaTime" /\ Len(r.stack) # 1)
      => /\ valid_next_token_formal(tokenList).vnt = DeltaTimeRow(Len(r.stack))
         /\ \A d \in DOMAIN Datas :
              LET v == valid_next_token_value(tokenList, Datas[d], refq, MaxLen) IN
              v.exc = "none" => v.vnt = DeltaTimeRow(Len(r.stack))

\* The feature keys a token list needs bound.
FeatureKeys(tl) == {tl[i].name : i \in {j \in DOMAIN tl : tl[j].kind = "Feature"}}

\* C5: for bindings that resolve every feature of the sequence, the formal
\* and the value legality checks return the same record.
C5_FormalEqualsValue ==
    \A d \in DOMAIN Datas :
      FeatureKeys(tokenList) \subseteq DOMAIN Datas[d]
        => LET f == valid_next_token_formal(tokenList)
               v == valid_next_token_value(tokenList, Datas[d], refq, MaxLen)
           IN  f.exc = v.exc /\ f.vnt = v.vnt

\* The replay of the whole list in value mode under binding map d.
ValueReplay(d) == ReplayValue(tokenList, 1, <<>>, "", Datas[d], refq)

DepthOneRow == Record(TRUE, TRUE, TRUE, Some(1), None, TRUE)

LastKinds == {"", "Constant", "DeltaTime", "Feature", "Operator"}

\* C6: whenever the replayed depth is 1 the record returned is the depth-1
\* row (all literals legal, CS bound 1, TS bound None, Separator legal),
\* whatever the last token, in both modes; and no record returned at another
\* depth has the Separator flag.
C6_DepthOneRowTakesPrecedence ==
    /\ LET f == valid_next_token_formal(tokenList)
           depth == Len(FormalPrefix(Len(tokenList)).stack)
       IN  f.exc = "none" => /\ depth = 1 => f.vnt = DepthOneRow
                             /\ f.vnt.SEP => depth = 1
    /\ \A d \in DOMAIN Datas :
         LET v == valid_next_token_value(tokenList, Datas[d], refq, MaxLen)
             depth == Len(ValueReplay(d).stack)
         IN  v.exc = "none" => /\ depth = 1 => v.vnt = DepthOneRow
                               /\ v.vnt.SEP => depth = 1
    /\ \A last \in LastKinds :
         /\ DecideFormal(<<0>>, last) = DepthOneRow
         /\ DecideValue(<<Some(0)>>, last) = DepthOneRow

\* A list of depth 1 that ends with an operator, just queried in value mode.
C6_Witness ==
    /\ call.op = "valid_next_token_value" /\ call.exc = "none"
    /\ FormalPrefix(Len(tokenList)).exc = "none"
    /\ Len(FormalPrefix(Len(tokenList)).stack) = 1
    /\ FormalPrefix(Len(tokenList)).last = "Operator"

BeginRow == Record(TRUE, FALSE, TRUE, None, None, FALSE)

OperandRow(depth) == Record(TRUE, TRUE, TRUE, Some(depth), None, FALSE)

\* C7: on [Begin] alone the record is the Begin row (Constant and Feature
\* only); when the last token is a Constant, a Feature or an operator and the
\* depth is at least 2 the record is all literals legal, CS bound = depth,
\* TS bound None, Separator illegal.  Both modes.
C7_BeginAndOperandRows ==
    /\ LET f == valid_next_token_formal(tokenList)
           r == FormalPrefix(Len(tokenList))
       IN  f.exc = "none" =>
             /\ tokenList = <<BEG_TOKEN>> => f.vnt = BeginRow
             /\ (r.last \in {"Constant", "Feature", "Operator"} /\ Len(r.stack) >= 2)
                  => f.vnt = OperandRow(Len(r.stack))
    /\ \A d \in DOMAIN Datas :
         LET v == valid_next_token_value(tokenList, Datas[d], refq, MaxLen)
             r == ValueReplay(d)
         IN  v.exc = "none" =>
               /\ tokenList = <<BEG_TOKEN>> => v.vnt = BeginRow
               /\ (r.last \in {"Constant", "Feature", "Operator"} /\ Len(r.stack) >= 2)
                    => v.vnt = OperandRow(Len(r.stack))

\* A list of depth 2 that ends with an operator, just queried in value mode.
C7_Witness ==
    /\ call.op = "valid_next_token_value" /\ call.exc = "none"
    /\ ValueReplay(call.data).exc = "none"
    /\ ValueReplay(call.data).last = "Operator"
    /\ Len(ValueReplay(call.data).stack) = 2

\* C8: an add_token call that raises (illegal token, sequence full, or an
\* error of the legality replay) leaves tokenList and expression as they were.
C8_FailedAddChangesNothing ==
    [][ (IsAdd(call') /\ call'.exc # "none")
          => (tokenList' = tokenList /\ expression' = expression) ]_vars

\* An add_token_value call that failed inside the legality replay.
C8_Witness ==
    /\ call.op = "add_token_value" /\ call.msg = "legality" /\ call.exc = "IndexError"
    /\ Len(tokenList) > 1

\* The canonical text of a token that is no sequence marker.
CanonicalText(tok) ==
    CASE tok.kind = "Constant" -> ToString(tok.val)
      [] tok.kind = "DeltaTime" -> ToString(tok.val)
      [] tok.kind = "Feature" -> "$" \o Lower(tok.name)
      [] tok.kind = "Operator" -> tok.name

RECURSIVE CanonicalTexts(_)
CanonicalTexts(tl) ==
    IF tl = <<>> THEN <<>>
    ELSE IF Head(tl).kind = "SequenceIndicator" THEN CanonicalTexts(Tail(tl))
    ELSE <<CanonicalText(Head(tl))>> \o CanonicalTexts(Tail(tl))

\* C9: after construction and after any add_token calls, expression holds,
\* in order, the canonical texts of the tokens of tokenList that are no
\* sequence markers.
C9_ExpressionMirrorsTokenList ==
    /\ expression = CanonicalTexts(tokenList)
    /\ InitExpression(ExampleTokens) = CanonicalTexts(ExampleTokens)

\* A list holding a Feature, an operator and an accepted Separator.
C9_Witness ==
    /\ \E i \in DOMAIN tokenList : tokenList[i] = SEP_TOKEN
    /\ \E i \in DOMAIN tokenList : tokenList[i].kind = "Feature"
    /\ \E i \in DOMAIN tokenList : tokenList[i].kind = "Operator"
    /\ Len(expression) >= 3

\* The flag the record holds for the class of a literal or Separator candidate.
ClassFlag(vnt, token) ==
    CASE token.kind = "Constant" -> vnt.Constant
      [] token.kind = "DeltaTime" -> vnt.DeltaTime
      [] token.kind = "Feature" -> vnt.Feature
      [] token.kind = "SequenceIndicator" -> vnt.SEP

LiteralOrSeparator(token) ==
    token.kind \in {"Constant", "DeltaTime", "Feature"} \/ token = SEP_TOKEN

\* What C10 says of one add_token step: the candidate is appended exactly
\* when its flag is true, and a call that does not append raises and leaves
\* both lists alone.
FlagDecides(c) ==
    LET flag == ClassFlag(PreRecord(c).vnt, c.token) IN
    /\ (tokenList' = Append(tokenList, c.token)) <=> flag
    /\ (~flag) => (c.exc = "ValueError" /\ tokenList' = tokenList /\ expression' = expression)

\* C10 as stated: add_token appends a Constant, DeltaTime, Feature or
\* Separator candidate if and only if the flag of its class in the current
\* legality record is true.
C10_FlagIffAppended ==
    [][ (IsAdd(call') /\ LiteralOrSeparator(call'.token) /\ PreRecord(call').exc = "none")
          => FlagDecides(call') ]_vars

\* C10 amended: the same on a token list shorter than maxLength.
C10_FlagIffAppendedBelowMaxLen ==
    [][ (IsAdd(call') /\ LiteralOrSeparator(call'.token) /\ PreRecord(call').exc = "none"
         /\ Len(tokenList) < MaxLen)
          => FlagDecides(call') ]_vars

\* A DeltaTime candidate refused for its flag, on a list with room left.
C10_Witness ==
    /\ call.op = "add_token_value" /\ call.token.kind = "DeltaTime"
    /\ call.exc = "ValueError" /\ call.msg = "illegal"
    /\ Len(tokenList) < MaxLen

\* C11: an add_token call fails with the sequence-full error exactly when
\* the token list (markers included) already holds maxLength tokens, and the
\* list never grows beyond maxLength.
C11_FullExactlyAtMaxLen ==
    [][ IsAdd(call')
          => /\ (call'.exc = "ValueError" /\ call'.msg = "full") <=> Len(tokenList) = MaxLen
             /\ Len(tokenList) <= MaxLen
             /\ Len(tokenList') <= MaxLen ]_vars

\* Both modes refused on a full list: a value-mode call that met the
\* sequence-full error on a list of maxLength tokens.
C11_Witness ==
    /\ call.op = "add_token_value" /\ call.exc = "ValueError" /\ call.msg = "full"
    /\ Len(tokenList) = MaxLen

\* Operands minus the net pops of the operators of tl: each Constant,
\* Feature and DeltaTime counts 1, each operator counts -(arity - 1).
RECURSIVE NetOperands(_)
NetOperands(tl) ==
    IF tl = <<>> THEN 0
    ELSE NetOperands(Tail(tl))
         + (CASE Head(tl).kind \in {"Constant", "Feature", "DeltaTime"} -> 1
              [] Head(tl).kind = "Operator" -> 0 - (n_args(Head(tl).name) - 1)
              [] OTHER -> 0)

\* C12: at every prefix of a sequence built by successful add_token calls,
\* the legality replay of the prefix succeeds with a simulation stack as
\* long as the operands minus the sum of (arity - 1) over the operators, and
\* the number is 1 when the sequence ends with a Separator.
C12_CountingInvariant ==
    /\ \A n \in 1..Len(tokenList) :
         /\ FormalPrefix(n).exc = "none"
         /\ Len(FormalPrefix(n).stack) = NetOperands(SubSeq(tokenList, 1, n))
    /\ tokenList[Len(tokenList)] = SEP_TOKEN => NetOperands(tokenList) = 1

IsTSOperator(tok) == tok.kind = "Operator" /\ Optype(tok.name) = "TS"

\* C13: in every sequence built by add_token calls, the token directly
\* after a DeltaTime is a TS operator, and a TS operator stands directly
\* after a DeltaTime; a call that appends a TS operator starts from a list
\* ending with a DeltaTime.
C13_DeltaTimeThenTSOperator ==
    [][ /\ \A i \in DOMAIN tokenList' :
             /\ (tokenList'[i].kind = "DeltaTime" /\ i < Len(tokenList'))
                  => IsTSOperator(tokenList'[i + 1])
             /\ IsTSOperator(tokenList'[i])
                  => (i > 1 /\ tokenList'[i - 1].kind = "DeltaTime")
        /\ (IsAdd(call') /\ IsTSOperator(call'.token) /\ call'.exc = "none")
             => tokenList[Len(tokenList)].kind = "DeltaTime" ]_vars

\* A TS operator accepted in value mode directly after a DeltaTime, and a
\* sequence that went on after it.
C13_Witness ==
    \E i \in DOMAIN tokenList :
      /\ i > 1 /\ i < Len(tokenList)
      /\ tokenList[i - 1].kind = "DeltaTime"
      /\ IsTSOperator(tokenList[i])
      /\ call.op = "add_token_value" /\ call.exc = "none"

HasSeparator(tl) == \E i \in DOMAIN tl : tl[i] = SEP_TOKEN

\* C14: once a Separator has been accepted, every further add_token call
\* is rejected and changes nothing; a Separator in the sequence is its last
\* token and occurs at most once.
C14_SeparatorEndsTheSequence ==
    [][ /\ (IsAdd(call') /\ HasSeparator(tokenList))
             => (call'.exc # "none" /\ tokenList' = tokenList /\ expression' = expression)
        /\ \A i \in DOMAIN tokenList' :
             tokenList'[i] = SEP_TOKEN => i = Len(tokenList') ]_vars

\* C15: the sequence of a builder started on [Begin] holds the Begin
\* marker exactly once, at index 0 (position 1 here), and no add_token call
\* appends a Begin marker.
C15_BeginOnlyAtFront ==
    [][ /\ \A i \in DOMAIN tokenList' : tokenList'[i] = BEG_TOKEN <=> i = 1
        /\ (IsAdd(call') /\ call'.token = BEG_TOKEN) => tokenList' = tokenList ]_vars

\* A complete sequence: its replay succeeds and leaves one value.
Complete(tl) ==
    LET r == ReplayFormal(tl, 1, <<>>, "") IN r.exc = "none" /\ Len(r.stack) = 1

\* C16: on a complete sequence, evaluate(bindings) returns the value the
\* value-mode replay of the same sequence leaves on its stack, for the same
\* bindings and the same fresh operator state.
C16_EvaluateEqualsValueReplay ==
    [][ (call'.op = "evaluate" /\ Complete(tokenList) /\ refq = RefInit)
          => LET v == ReplayValue(tokenList, 1, <<>>, "", Datas[call'.data], RefInit) IN
             /\ v.exc = "none" <=> call'.exc = "none"
             /\ v.exc = "none" => call'.ret = v.stack[1] ]_vars

\* The number of catalog entries an Optional list contributes.
Size(optList) == IF optList = None THEN 0 ELSE Len(ValOf(optList))

\* Where the CS and the TS operator entries start in the catalog of maskArgs
\* (the number of entries before them).
CSOffset == Size(maskArgs.Constants) + Size(maskArgs.Features) + Size(maskArgs.DeltaTimes)
TSOffset == CSOffset + Size(maskArgs.CSOperators)

\* An operator is within a class bound: the bound is not None and the
\* arity the dictionary holds for the operator is at most the bound.
ArityWithin(dict, bound, op) == bound # None /\ dict[op] <= ValOf(bound)

\* C17: in the mask MaskActionSpace returns, the entry of an operator is
\* true exactly when the bound of its class is not None and its arity in
\* the arity dictionary is at most the bound, so with a bound None every
\* operator of the class is false; the catalog {+ (CS, 2), ref (TS, 1)}
\* with CS bound 2 and TS bound None gives the operator entries true, false.
C17_OperatorEntries ==
    /\ maskRet.mask # None =>
         LET mask == ValOf(maskRet.mask)
             vd == maskArgs.ValidDict
             dict == maskArgs.func_arity_dict
         IN  /\ \A i \in 1..Size(maskArgs.CSOperators) :
                  mask[CSOffset + i]
                    <=> ArityWithin(dict, vd.CSOperator.Max, ValOf(maskArgs.CSOperators)[i])
             /\ \A i \in 1..Size(maskArgs.TSOperators) :
                  mask[TSOffset + i]
                    <=> ArityWithin(dict, vd.TSOperator.Max, ValOf(maskArgs.TSOperators)[i])
    /\ SubSeq(MaskActionSpace(None, None, None, Some(<<"+">>), Some(<<"ref">>),
                              ("+" :> 2 @@ "ref" :> 1),
                              Record(FALSE, FALSE, FALSE, Some(2), None, FALSE)), 1, 2)
         = <<TRUE, FALSE>>

\* A returned mask with one CS operator within the bound and one above it,
\* and a TS operator under a bound None.
C17_Witness ==
    /\ maskRet.mask # None
    /\ maskArgs.CSOperators = Some(<<"+", "-">>)
    /\ maskArgs.TSOperators = Some(<<"ref">>)
    /\ maskArgs.ValidDict.CSOperator.Max = Some(2)
    /\ maskArgs.ValidDict.TSOperator.Max = None
    /\ maskArgs.func_arity_dict["-"] = 3
    /\ SubSeq(ValOf(maskRet.mask), CSOffset + 1, TSOffset + 1) = <<TRUE, FALSE, FALSE>>

\* The number of entries of the catalog of maskArgs: the lengths of the
\* lists that are not None, plus one for the Separator.
CatalogSize ==
    Size(maskArgs.Constants) + Size(maskArgs.Features) + Size(maskArgs.DeltaTimes)
    + Size(maskArgs.CSOperators) + Size(maskArgs.TSOperators) + 1

\* C18: for any five lists (each possibly None) and any legality record,
\* the mask MaskActionSpace returns is as long as the catalog
\* GetActionSpace returns for the same lists: the sum of the lengths of the
\* lists that are not None, plus 1.
C18_MaskAsLongAsCatalog ==
    /\ maskRet.mask # None => Len(ValOf(maskRet.mask)) = CatalogSize
    /\ maskRet.space # None => Len(ValOf(maskRet.space)) = CatalogSize
    /\ (maskRet.mask # None /\ maskRet.space # None)
         => Len(ValOf(maskRet.mask)) = Len(ValOf(maskRet.space))

\* Both functions called on lists of which some are None and some are not,
\* under a record that bounds one operator class only.
C18_Witness ==
    /\ maskRet.mask # None /\ maskRet.space # None
    /\ maskArgs.Constants = Some(<<10, 20>>) /\ maskArgs.Features = None
    /\ maskArgs.DeltaTimes = None /\ maskArgs.CSOperators = Some(<<"+", "-">>)
    /\ maskArgs.TSOperators = Some(<<"ref">>)
    /\ maskArgs.ValidDict.CSOperator.Max = None
    /\ maskArgs.ValidDict.TSOperator.Max # None
    /\ Len(ValOf(maskRet.mask)) = 6

\* C19: in the mask MaskActionSpace returns, every Constant entry equals
\* the record's Constant flag, every Feature entry its Feature flag, every
\* DeltaTime entry its DeltaTime flag, and the last entry equals the
\* record's Separator flag.
C19_LiteralAndSeparatorEntries ==
    maskRet.mask # None =>
      LET mask == ValOf(maskRet.mask)
          vd == maskArgs.ValidDict
          nc == Size(maskArgs.Constants)
          nf == Size(maskArgs.Features)
      IN  /\ \A i \in 1..nc : mask[i] = vd.Constant
          /\ \A i \in 1..nf : mask[nc + i] = vd.Feature
          /\ \A i \in 1..Size(maskArgs.DeltaTimes) : mask[nc + nf + i] = vd.DeltaTime
          /\ mask[Len(mask)] = vd.SEP

\* A returned mask over three literal lists whose flags differ: Constant
\* and Separator legal, Feature and DeltaTime not.
C19_Witness ==
    /\ maskRet.mask # None
    /\ maskArgs.Constants = Some(<<10, 20>>)
    /\ maskArgs.Features # None /\ maskArgs.DeltaTimes # None
    /\ maskArgs.CSOperators = None /\ maskArgs.TSOperators = None
    /\ ValOf(maskRet.mask) = <<TRUE, TRUE, FALSE, FALSE, TRUE>>

\* C20: the catalog GetActionSpace returns lists the constants, the
\* features, the deltaTimes, the CS operators and the TS operators in this
\* order, each list in its own order and a list that is None not at all,
\* followed by exactly one entry 'SEP', which is therefore the last; the
\* constants [1.0, 2.0] alone give ['1.0', '2.0', 'SEP'].
C20_CatalogOrder ==
    /\ maskRet.space # None =>
         LET space == ValOf(maskRet.space)
             nc == Size(maskArgs.Constants)
             nf == Size(maskArgs.Features)
         IN  /\ \A i \in 1..nc : space[i] = StrFloat(ValOf(maskArgs.Constants)[i])
             /\ \A i \in 1..nf : space[nc + i] = ValOf(maskArgs.Features)[i]
             /\ \A i \in 1..Size(maskArgs.DeltaTimes) :
                  space[nc + nf + i] = ToString(ValOf(maskArgs.DeltaTimes)[i])
             /\ \A i \in 1..Size(maskArgs.CSOperators) :
                  space[CSOffset + i] = ValOf(maskArgs.CSOperators)[i]
             /\ \A i \in 1..Size(maskArgs.TSOperators) :
                  space[TSOffset + i] = ValOf(maskArgs.TSOperators)[i]
             /\ Len(space) = CatalogSize
             /\ {i \in DOMAIN space : space[i] = "SEP"} = {Len(space)}
    /\ GetActionSpace(Some(<<10, 20>>), None, None, None, None) = <<"1.0", "2.0", "SEP">>

\* A returned catalog over all five lists.
C20_Witness ==
    /\ maskRet.space = Some(<<"1.0", "2.0", "$feature1", "1", "+", "-", "ref", "SEP">>)
    /\ maskArgs.Constants = Some(<<10, 20>>)
    /\ maskArgs.CSOperators = Some(<<"+", "-">>)

\* Both loops have returned or raised.
BothDone == \A i \in {1, 2} : streams.s[i].phase = "done"

\* Both loops ran the expression of the example, the first under close = a
\* and the second under close = b.
ExampleRuns(a, b) ==
    /\ \A i \in {1, 2} : streams.s[i].expr = InitExpression(ExampleTokens)
    /\ streams.s[1].data = ("$close" :> a)
    /\ streams.s[2].data = ("$close" :> b)

\* C21: with ref (arity 2) over a memory of size 1 and the sequence
\* [Begin, 3, close, add, 1, ref], evaluating with close = 4 and then with
\* close = 5 on one ref instance gives two different results, the second
\* being the value the first evaluation stored; evaluating the same input on
\* two fresh instances gives the same result both times.
C21_RefMemoryScenario ==
    /\ (streams.shared /\ BothDone /\ ExampleRuns(4, 5) /\ streams.log = <<1, 1, 2, 2>>)
         => /\ streams.s[1].exc = "none" /\ streams.s[2].exc = "none"
            /\ streams.s[1].ret # streams.s[2].ret
            /\ streams.s[2].ret = Some(3 + 4)
    /\ \A a \in {4, 5} :
         (~streams.shared /\ BothDone /\ ExampleRuns(a, a))
           => /\ streams.s[1].exc = "none" /\ streams.s[2].exc = "none"
              /\ streams.s[1].ret = streams.s[2].ret

\* The two evaluations of the example made one after the other on one
\* instance, the second returning what the first stored.
C21_Witness ==
    /\ streams.shared /\ BothDone /\ ExampleRuns(4, 5)
    /\ streams.log = <<1, 1, 2, 2>>
    /\ streams.s[1].ret = None /\ streams.s[2].ret = Some(7)

\* What loop i obtains when it runs alone on a fresh ref instance.
Alone(i) == evaluate(StreamOps, streams.s[i].expr, streams.s[i].data, RefInit)

\* C22: when each of two evaluation loops over sequences with a TS operator
\* calls its own ref instance, each obtains, however the operator calls of
\* the two interleave, the result it obtains when run alone.
C22_OwnInstanceDeterminism ==
    \A i \in {1, 2} :
      (~streams.shared /\ streams.s[i].phase = "done")
        => /\ streams.s[i].exc = Alone(i).exc
           /\ streams.s[i].ret = Alone(i).val

\* Two loops on their own instances whose queue operations interleaved:
\* both put before either got.
C22_Witness ==
    /\ ~streams.shared /\ BothDone
    /\ streams.log \in {<<1, 2, 2, 1>>, <<2, 1, 1, 2>>}
    /\ \A i \in {1, 2} : streams.s[i].exc = "none"

UnboundErrors == {"KeyError", "InvalidExpressionError"}

\* C23: in value-mode legality and in evaluate alike, the Feature tokens
\* of the sequence resolve when their keys are in the binding map of the
\* call (no unbound-feature error), and the call fails with an error when
\* a key is absent.
C23_FeatureResolvesOrFails ==
    [][ (call'.op \in {"evaluate", "valid_next_token_value"} /\ FeatureKeys(tokenList) # {})
          => /\ FeatureKeys(tokenList) \subseteq DOMAIN Datas[call'.data]
                  => call'.exc \notin UnboundErrors
             /\ ~(FeatureKeys(tokenList) \subseteq DOMAIN Datas[call'.data])
                  => call'.exc # "none" ]_vars

\* The value evaluate pushes for an operand text under a binding map.
OperandValue(t, variables) ==
    IF IsDigit(t) THEN Some(Float(t)) ELSE Some(variables[t])

\* Two operands followed by one binary operator of self.ops.
OneBinary(e) ==
    /\ Len(e) = 3
    /\ e[1] \notin DOMAIN RpnOps
    /\ e[2] \notin DOMAIN RpnOps
    /\ e[3] \in DOMAIN RpnOps

\* C24: to_string renders an operator as name(arg0, arg1) with the
\* arguments in the order they were pushed, and evaluate hands the operator
\* the values in that same order: ['3', '4', '-'] renders '-(3, 4)' and
\* evaluates to 3 - 4.
C24_ArgumentsInPushOrder ==
    LET e == rpn.expression IN
    /\ (rpn.op = "to_string" /\ OneBinary(e))
         => /\ rpn.exc = "none"
            /\ rpn.text = e[3] \o "(" \o e[1] \o ", " \o e[2] \o ")"
    /\ (rpn.op = "evaluate" /\ OneBinary(e) /\ rpn.exc = "none")
         => rpn.val = Apply(e[3], <<OperandValue(e[1], RpnDatas[rpn.data]),
                                    OperandValue(e[2], RpnDatas[rpn.data])>>, RefInit).val
    /\ (rpn.op = "to_string" /\ e = <<"3", "4", "-">>) => rpn.text = "-(3, 4)"
    /\ (rpn.op = "evaluate" /\ e = <<"3", "4", "-">>) => rpn.val = Some(3 - 4)

C24_Witness ==
    /\ rpn.expression = <<"3", "4", "-">>
    /\ rpn.op = "to_string"
    /\ rpn.text = "-(3, 4)"

\* Values on the stack after the first n tokens, while no operator has run
\* short: an operand adds one, an operator takes its arity and adds one.
RECURSIVE DepthAfter(_, _)
DepthAfter(e, n) ==
    IF n = 0 THEN 0
    ELSE DepthAfter(e, n - 1)
           + (IF e[n] \in DOMAIN RpnOps THEN 1 - RpnOps[e[n]] ELSE 1)

\* Some operator is reached with fewer values than its arity.
Underflow(e) ==
    \E i \in 1..Len(e) :
        /\ e[i] \in DOMAIN RpnOps
        /\ DepthAfter(e, i - 1) < RpnOps[e[i]]

\* C25: on an expression handed in from outside in which some operator is
\* reached with fewer values than its arity, to_string and evaluate fail
\* with an error and return no text and no value.
C25_UnderflowFails ==
    (rpn.op \in {"to_string", "evaluate"} /\ Underflow(rpn.expression))
        => /\ rpn.exc # "none"
           /\ rpn.text = ""
           /\ rpn.val = None

C25_Witness ==
    /\ rpn.op = "to_string"
    /\ rpn.expression = <<"3", "+">>
    /\ rpn.exc = "IndexError"

\* headLength + tailLength with the registry's largest arity, 2.
HeadPlusTail(h) == h + (h * (2 - 1) + 1)

OperatorInTail(e, h) ==
    \E i \in 1..Len(e) : i - 1 >= h /\ e[i] \in DOMAIN KarvaOps

\* C27: Karva validation rejects every expression with an operator at an
\* index >= headLength, and accepts every expression of exactly
\* headLength + tailLength tokens whose tail holds no operator.
C27_TailHoldsNoOperator ==
    LET e == karva.expression
        h == karva.head_length
    IN karva.op = "validate"
        => /\ OperatorInTail(e, h) => ~karva.valid
           /\ (Len(e) = h + TailLength(KarvaOps, h) /\ ~OperatorInTail(e, h)) => karva.valid

C27_Witness ==
    /\ karva.op = "validate"
    /\ karva.head_length = 2
    /\ Len(karva.expression) = 5
    /\ karva.expression[3] = "+"
    /\ ~karva.valid

\* The values of a tree, parent before children, children left to right.
RECURSIVE Preorder(_)
RECURSIVE PreorderAll(_)
Preorder(node) == <<node.value>> \o PreorderAll(node.children)

PreorderAll(nodes) ==
    IF nodes = <<>> THEN <<>> ELSE Preorder(Head(nodes)) \o PreorderAll(Tail(nodes))

\* Every operator node has exactly arity children, every other node none.
RECURSIVE ArityChildren(_)
ArityChildren(node) ==
    /\ Len(node.children) = (IF node.value \in DOMAIN KarvaOps THEN KarvaOps[node.value] ELSE 0)
    /\ \A i \in DOMAIN node.children : ArityChildren(node.children[i])

\* C28: build_tree consumes the flat sequence with one forward cursor in
\* depth-first prefix order: the tree read parent-first is the prefix of the
\* expression it consumed, an operator of arity k has exactly k children and
\* a terminal is a leaf; ['+','-','*','a','b','c','d'] renders
\* '+(-(*(a, b), c), d)'.
C28_DepthFirstPrefixOrder ==
    /\ (karva.op \in {"build_tree", "to_string"} /\ karva.exc = "none")
         => /\ Preorder(karva.tree)
                 = SubSeq(karva.expression, 1, Len(Preorder(karva.tree)))
            /\ ArityChildren(karva.tree)
    /\ (karva.op = "to_string" /\ karva.expression = SubSeq(DocExpression, 1, 7))
         => karva.text = "+(-(*(a, b), c), d)"

C28_Witness ==
    /\ karva.op = "to_string"
    /\ karva.expression = SubSeq(DocExpression, 1, 7)
    /\ karva.text = "+(-(*(a, b), c), d)"
    /\ Len(karva.tree.children) = 2

\* C29: registering an operator whose name is already registered fails with
\* a duplicate-operator error and leaves the operator registered under that
\* name unchanged.
C29_DuplicateRejected ==
    [][ops_available'.name \in DOMAIN ops_available.dict
         => /\ ops_available'.exc = "DuplicateOperatorError"
            /\ ops_available'.dict = ops_available.dict]_vars

\* The names of the input with the given arity, in insertion order.
NamesWithArity(ops, a) ==
    LET sel == SelectSeq(ops, LAMBDA p : p[2] = a) IN
    [i \in DOMAIN sel |-> sel[i][1]]

\* C30: GetArityDict partitions the operator names by arity: every name of
\* the input appears exactly once, in the bucket of its own arity; a bucket
\* lists its names in the input's insertion order; no bucket is empty (an
\* empty input gives an empty result); the second result maps every name to
\* its arity.
C30_PartitionByArity ==
    LET ops == arityDict.ops
        ad == arityDict.arity_dict
        fd == arityDict.func_dict
    IN arityDict.op = "GetArityDict"
        => /\ \A i \in DOMAIN ops :
                 /\ ops[i][2] \in DOMAIN ad
                 /\ Cardinality({p \in {<<a, j>> : a \in DOMAIN ad, j \in 1..Len(ops)} :
                                   p[2] <= Len(ad[p[1]]) /\ ad[p[1]][p[2]] = ops[i][1]}) = 1
                 /\ \E j \in DOMAIN ad[ops[i][2]] : ad[ops[i][2]][j] = ops[i][1]
           /\ \A a \in DOMAIN ad : ad[a] = NamesWithArity(ops, a) /\ ad[a] # <<>>
           /\ (ops = <<>>) => DOMAIN ad = {}
           /\ DOMAIN fd = {ops[i][1] : i \in DOMAIN ops}
           /\ \A i \in DOMAIN ops : fd[ops[i][1]] = ops[i][2]

C30_Witness ==
    /\ arityDict.op = "GetArityDict"
    /\ arityDict.ops = << <<"+", 2>>, <<"neg", 1>>, <<"sum3", 3>>, <<"-", 2>> >>
    /\ arityDict.arity_dict = (2 :> <<"+", "-">> @@ 1 :> <<"neg">> @@ 3 :> <<"sum3">>)

\* C31: RPNBase.validate_expression returns True exactly for the expressions
\* in which every operator finds at least arity values on the stack and the
\* final stack depth is 1, and False for every other expression.
C31_ValidIffWellFormed ==
    rpn.op = "validate_expression"
        => (rpn.valid <=> (~Underflow(rpn.expression)
                            /\ DepthAfter(rpn.expression, Len(rpn.expression)) = 1))

\* C32: valid_next_token_value returns a legality record, and does not
\* raise, on every sequence reached from [Begin] by successful
\* add_token_value calls with the same bindings, a sequence of maxLength
\* tokens included.
C32_ValueLegalityNeverRaises ==
    call.op = "valid_next_token_value" => call.exc = "none"

\* C33: computing the value-mode legality record (valid_next_token_value,
\* and with it every add_token_value call) leaves the hidden state of every
\* TS operator unchanged: a later evaluate on the same sequence gives the
\* same result whether or not legality was queried before it.
C33_LegalityLeavesOperatorStateAlone ==
    [][ call'.op \in {"valid_next_token_value", "add_token_value"}
          => /\ refq' = refq
             /\ tokenList' = tokenList
                  => \A d \in DOMAIN Datas :
                       evaluate(default_ops, expression, Datas[d], refq').val
                         = evaluate(default_ops, expression, Datas[d], refq).val ]_vars

\* Some entry of the mask of record vnt is true.
SomePermitted(vnt) == \E i \in DOMAIN Mask(vnt) : Mask(vnt)[i]

\* C35: at every sequence reached by successful add_token calls that is
\* shorter than maxLength and does not end with a Separator, the legality
\* record permits at least one token of the catalog, in formal mode and in
\* value mode.
C35_SomeTokenPermitted ==
    (Len(tokenList) < MaxLen /\ tokenList[Len(tokenList)] # SEP_TOKEN)
      => /\ LET f == valid_next_token_formal(tokenList) IN
            f.exc = "none" => SomePermitted(f.vnt)
         /\ \A d \in DOMAIN Datas :
              LET v == valid_next_token_value(tokenList, Datas[d], refq, MaxLen) IN
              v.exc = "none" => SomePermitted(v.vnt)

\* Some continuation of tl by successful add_token_formal calls has a
\* Separator accepted.
RECURSIVE CanComplete(_, _)
CanComplete(tl, expr) ==
    \E token \in Tokens :
        LET r == add_token_formal(tl, expr, token, MaxLen) IN
        /\ r.exc = "none"
        /\ token = SEP_TOKEN \/ CanComplete(r.tokenList, r.expression)

\* C36: from every sequence reached by successful add_token calls, some
\* continuation of successful add_token calls reaches an accepted Separator
\* before add_token fails with the sequence-full error.
C36_AlwaysCompletable ==
    SEP_TOKEN \in Range(tokenList) \/ CanComplete(tokenList, expression)

\* C34: for every Karva expression validate_expression accepts, build_tree
\* (and so evaluate and to_string) ends without reading a token at an index
\* >= len(expression), and consumes at most headLength + tailLength tokens.
C34_BuildStaysWithinHeadPlusTail ==
    (karva.op \in {"build_tree", "to_string", "evaluate"}
       /\ validate_expression(KarvaOps, karva.expression, karva.head_length))
      => /\ karva.exc # "IndexError"
         /\ karva.idx <= Len(karva.expression)
         /\ karva.idx <= HeadPlusTail(karva.head_length)

\* A head of two binary operators: all of head and tail is consumed.
C34_Witness ==
    /\ karva.op = "evaluate"
    /\ karva.head_length = 2
    /\ karva.expression = <<"+", "+", "a", "b", "a">>
    /\ karva.idx = 5
    /\ karva.val = Some(13)

\* C37: step called with the Separator token ends the episode: whenever it
\* returns, it returns the completion flag true and the evaluation outcome of the built sequence
\* as the scalar outcome; for any other token that is accepted it returns
\* the completion flag false.
C37_SeparatorEndsEpisode ==
    [][ env'.op = "step"
          => /\ (env'.action = SEP_TOKEN /\ env'.exc = "none")
                  => /\ env'.done
                     /\ env'.reward = _evaluate(expression, refq).reward
             /\ (env'.action # SEP_TOKEN /\ env'.exc = "none"
                   /\ tokenList' = Append(tokenList, env'.action))
                  => ~env'.done ]_vars

\* C38: after reset the builder is in the state of a freshly constructed
\* builder on [Begin]: its token list is [Begin] and its rendered-text list
\* is empty.
C38_ResetGivesFreshBuilder ==
    env.op = "reset"
      => /\ tokenList = <<BEG_TOKEN>>
         /\ expression = InitExpression(<<BEG_TOKEN>>)

====
